---- MODULE Spec2Model ----
(***************************************************************************)
(* Model of the reminder time resolver of the notes application:           *)
(* NotificationService.parseReminderTime, extractTimeFromText and          *)
(* formatReminderDisplay (src/services/soundService.ts).                   *)
(*                                                                         *)
(* Text is a sequence of one-character strings, so that the substring      *)
(* containment tests and the regular expressions of the source are         *)
(* computed character by character.  A point in time is a local calendar   *)
(* day (days since 1970-01-01, a Thursday) and the milliseconds past       *)
(* midnight; the arithmetic is timezone-naive (no daylight-saving shifts), *)
(* as the source's setDate/setHours arithmetic is on a day without a       *)
(* transition.  A Date whose time value is NaN is the record InvalidDate.  *)
(*                                                                         *)
(* Around the resolver stand the services that use it, each with a         *)
(* specification of its own in which an async function advances from one   *)
(* await to the next: NotificationService.scheduleNotification, the note   *)
(* functions createNoteWithReminder, updateNoteReminder,                   *)
(* removeNoteReminder and deleteNote (src/unnamed/part_001), VoiceService  *)
(* (src/services/voiceService.ts) and PreferencesService                   *)
(* (src/unnamed/part_002).                                                 *)
(***************************************************************************)
EXTENDS Integers, Sequences, FiniteSets, TLC

VARIABLES
  phrase,   \* timeString, the argument of the call
  now,      \* the clock: `new Date()` at the top of a call, Date.now()
  pc,       \* "called" before the body has run, "returned" after; in the
            \* specifications of the services, the name of the service
  result,   \* the returned ReminderInfo {date, displayText, isValid}
  branch,   \* which arm of the if / else-if chain set the date
  clock,    \* the local `time` as applied: hours, minutes, found
  text,     \* the argument of extractTimeFromText
  pattern,  \* the index in timePatterns of the pattern the loop broke at
  extraction, \* the returned TimeExtractionResult
  date,     \* the Date argument: of formatReminderDisplay, scheduleNotification
  display,  \* the string formatReminderDisplay returns
  os,       \* the notification centre of the device: permission, requests
  calls,    \* the calls of the services in flight, each at an await
  note,     \* the row of the note in the notes table, Null when there is none
  voice,    \* the fields of VoiceService: recording, isRecording
  prefs,    \* the fields of PreferencesService: cachedPreferences, cacheUserId
  backend   \* the session and the user_preferences table

\* The variables of the time resolver, and those of the services around it.
resolverVars == <<phrase, pc, result, branch, clock, text, pattern, extraction,
                  display>>

serviceVars == <<os, calls, note, voice, prefs, backend>>

vars == <<phrase, now, pc, result, branch, clock, text, pattern, extraction,
          date, display, os, calls, note, voice, prefs, backend>>

----------------------------------------------------------------------------
(* Text primitives: String.prototype.includes, toLowerCase, trim, parseInt *)

Digits == <<"0", "1", "2", "3", "4", "5", "6", "7", "8", "9">>

IsDigit(c) == \E n \in 1..10 : Digits[n] = c

DigitVal(c) == (CHOOSE n \in 1..10 : Digits[n] = c) - 1

IsSpace(c) == c = " "

UpperCase ==
  <<"A", "B", "C", "D", "E", "F", "G", "H", "I", "J", "K", "L", "M",
    "N", "O", "P", "Q", "R", "S", "T", "U", "V", "W", "X", "Y", "Z">>

LowerCase ==
  <<"a", "b", "c", "d", "e", "f", "g", "h", "i", "j", "k", "l", "m",
    "n", "o", "p", "q", "r", "s", "t", "u", "v", "w", "x", "y", "z">>

ToLowerChar(c) ==
  IF \E n \in 1..26 : UpperCase[n] = c
  THEN LowerCase[CHOOSE n \in 1..26 : UpperCase[n] = c]
  ELSE c

ToLowerCase(s) == [i \in 1..Len(s) |-> ToLowerChar(s[i])]

Trim(s) ==
  LET keep == {i \in 1..Len(s) : ~IsSpace(s[i])}
  IN IF keep = {} THEN <<>>
     ELSE SubSeq(s, CHOOSE i \in keep : \A j \in keep : i <= j,
                    CHOOSE i \in keep : \A j \in keep : j <= i)

StartsAt(s, i, sub) ==
  /\ i >= 1
  /\ i + Len(sub) - 1 <= Len(s)
  /\ \A k \in 1..Len(sub) : s[i + k - 1] = sub[k]

Includes(s, sub) == \E i \in 1..(Len(s) - Len(sub) + 1) : StartsAt(s, i, sub)

DigitAt(s, i) == i >= 1 /\ i <= Len(s) /\ IsDigit(s[i])

\* The first position at or after i that holds no white space (greedy \s*).
RECURSIVE SkipSpaces(_, _)
SkipSpaces(s, i) ==
  IF i <= Len(s) /\ IsSpace(s[i]) THEN SkipSpaces(s, i + 1) ELSE i

\* The position after the run of digits that starts at i (greedy \d+).
RECURSIVE SkipDigits(_, _)
SkipDigits(s, i) == IF DigitAt(s, i) THEN SkipDigits(s, i + 1) ELSE i

\* parseInt of a regex group of at most two characters: the value of its
\* leading digits, NaN when the group does not start with a digit.
ParseInt(g) ==
  IF g = <<>> \/ ~IsDigit(g[1]) THEN [nan |-> TRUE, val |-> 0]
  ELSE IF Len(g) >= 2 /\ IsDigit(g[2])
       THEN [nan |-> FALSE, val |-> 10 * DigitVal(g[1]) + DigitVal(g[2])]
       ELSE [nan |-> FALSE, val |-> DigitVal(g[1])]

RECURSIVE Str(_)
Str(s) == IF s = <<>> THEN "" ELSE s[1] \o Str(Tail(s))

----------------------------------------------------------------------------
(* The string literals of parseReminderTime *)

S_today ==
  <<"t", "o", "d", "a", "y">>
S_tonight ==
  <<"t", "o", "n", "i", "g", "h", "t">>
S_tomorrow ==
  <<"t", "o", "m", "o", "r", "r", "o", "w">>
S_next_week ==
  <<"n", "e", "x", "t", " ", "w", "e", "e", "k">>
S_in_an_hour ==
  <<"i", "n", " ", "a", "n", " ", "h", "o", "u", "r">>
S_in_1_hour ==
  <<"i", "n", " ", "1", " ", "h", "o", "u", "r">>
S_in_30_minutes ==
  <<"i", "n", " ", "3", "0", " ", "m", "i", "n", "u", "t", "e", "s">>
S_in_half_an_hour ==
  <<"i", "n", " ", "h", "a", "l", "f", " ", "a", "n", " ", "h", "o", "u", "r">>
S_in ==
  <<"i", "n", " ">>
S_hour ==
  <<" ", "h", "o", "u", "r">>
S_minute ==
  <<" ", "m", "i", "n", "u", "t", "e">>
S_this_weekend ==
  <<"t", "h", "i", "s", " ", "w", "e", "e", "k", "e", "n", "d">>
S_next ==
  <<"n", "e", "x", "t">>
S_next_sp ==
  <<"n", "e", "x", "t", " ">>
S_am ==
  <<"a", "m">>
S_pm ==
  <<"p", "m">>

----------------------------------------------------------------------------
(* extractTime: the clock time in the phrase, if any *)

\* How many characters (\d{1,2}) takes at i.  When two digits stand at i the
\* one-digit alternative cannot match: what follows it would be a digit,
\* where every pattern wants ':', white space or a letter.
HourDigits(s, i) ==
  IF DigitAt(s, i) /\ DigitAt(s, i + 1) THEN 2
  ELSE IF DigitAt(s, i) THEN 1 ELSE 0

NoMatch == [found |-> FALSE, g1 |-> <<>>, g2 |-> <<>>, g3 |-> <<>>]

\* The (am|pm) group at j; <<>> when neither stands there.
PeriodAt(s, j) ==
  IF StartsAt(s, j, S_am) THEN S_am
  ELSE IF StartsAt(s, j, S_pm) THEN S_pm ELSE <<>>

\* /(\d{1,2}):(\d{2})\s*(am|pm)/i matched at position i
MatchColonPeriod(s, i) ==
  LET n == HourDigits(s, i)
      j == SkipSpaces(s, i + n + 3)
  IN IF /\ n > 0
        /\ StartsAt(s, i + n, <<":">>)
        /\ DigitAt(s, i + n + 1)
        /\ DigitAt(s, i + n + 2)
        /\ PeriodAt(s, j) # <<>>
     THEN [found |-> TRUE, g1 |-> SubSeq(s, i, i + n - 1),
           g2 |-> SubSeq(s, i + n + 1, i + n + 2), g3 |-> PeriodAt(s, j)]
     ELSE NoMatch

\* /(\d{1,2})\s*(am|pm)/i matched at position i: the period is group 2 and
\* there is no group 3.
MatchPeriod(s, i) ==
  LET n == HourDigits(s, i)
      j == SkipSpaces(s, i + n)
  IN IF n > 0 /\ PeriodAt(s, j) # <<>>
     THEN [found |-> TRUE, g1 |-> SubSeq(s, i, i + n - 1),
           g2 |-> PeriodAt(s, j), g3 |-> <<>>]
     ELSE NoMatch

\* /(\d{1,2}):(\d{2})/ matched at position i
MatchColon(s, i) ==
  LET n == HourDigits(s, i)
  IN IF /\ n > 0
        /\ StartsAt(s, i + n, <<":">>)
        /\ DigitAt(s, i + n + 1)
        /\ DigitAt(s, i + n + 2)
     THEN [found |-> TRUE, g1 |-> SubSeq(s, i, i + n - 1),
           g2 |-> SubSeq(s, i + n + 1, i + n + 2), g3 |-> <<>>]
     ELSE NoMatch

\* str.match(pattern): the leftmost match of pattern k (1, 2, 3).
MatchAt(s, k, i) ==
  CASE k = 1 -> MatchColonPeriod(s, i)
    [] k = 2 -> MatchPeriod(s, i)
    [] OTHER -> MatchColon(s, i)

StrMatch(s, k) ==
  LET hits == {i \in 1..Len(s) : MatchAt(s, k, i).found}
  IN IF hits = {} THEN NoMatch
     ELSE MatchAt(s, k, CHOOSE i \in hits : \A j \in hits : i <= j)

\* The body of the loop for a match: hours, minutes and period from
\* match[1], match[2], match[3].
TimeOfMatch(m) ==
  LET h0 == ParseInt(m.g1).val
      mins == IF m.g2 # <<>> THEN ParseInt(m.g2) ELSE [nan |-> FALSE, val |-> 0]
      period == m.g3
      h1 == IF period = S_pm /\ h0 < 12 THEN h0 + 12 ELSE h0
      h2 == IF period = S_am /\ h1 = 12 THEN 0 ELSE h1
  IN [found |-> TRUE, hours |-> h2, minutes |-> mins.val, nan |-> mins.nan]

NoTime == [found |-> FALSE, hours |-> 0, minutes |-> 0, nan |-> FALSE]

ExtractTime(str) ==
  LET m1 == StrMatch(str, 1)
      m2 == StrMatch(str, 2)
      m3 == StrMatch(str, 3)
  IN IF m1.found THEN TimeOfMatch(m1)
     ELSE IF m2.found THEN TimeOfMatch(m2)
     ELSE IF m3.found THEN TimeOfMatch(m3)
     ELSE NoTime

\* A default of midnight instead of 9 AM.
DefaultTime_Midnight == [found |-> FALSE, hours |-> 0, minutes |-> 0, nan |-> FALSE]

\* { hours: 9, minutes: 0 }
DefaultTime == [found |-> FALSE, hours |-> 9, minutes |-> 0, nan |-> FALSE]

TimeOrDefault(str) ==
  LET t == ExtractTime(str) IN IF t.found THEN t ELSE DefaultTime

----------------------------------------------------------------------------
(* Date: local calendar day and milliseconds past midnight *)

MsPerMinute == 60 * 1000
MsPerHour == 60 * 60 * 1000
MsPerDay == 24 * MsPerHour

\* The range of a Date is 8.64e15 ms, 100,000,000 days, either side of the
\* epoch; a time value outside it is NaN.
MaxDateDay == 10000 * 10000

InvalidDate == [valid |-> FALSE, day |-> 0, ms |-> 0]

TimeClip(day, ms) ==
  IF \/ day > MaxDateDay
     \/ (day = MaxDateDay /\ ms > 0)
     \/ day < -MaxDateDay
  THEN InvalidDate
  ELSE [valid |-> TRUE, day |-> day, ms |-> ms]

\* Date.prototype.getDay: 0 is Sunday; day 0 (1970-01-01) was a Thursday.
GetDay(d) == (d.day + 4) % 7

\* d.setDate(d.getDate() + n)
AddDays(d, n) == IF d.valid THEN TimeClip(d.day + n, d.ms) ELSE InvalidDate

\* d.setHours(hours, minutes, 0, 0); a NaN argument makes the date invalid,
\* hours and minutes past 23 and 59 carry into the following days.
SetHours(d, hours, minutes, nan) ==
  IF ~d.valid \/ nan THEN InvalidDate
  ELSE LET t == hours * MsPerHour + minutes * MsPerMinute
       IN TimeClip(d.day + (t \div MsPerDay), t % MsPerDay)

\* new Date(d.getTime() + days * MsPerDay + ms), for 0 <= ms < MsPerDay
AddTime(d, days, ms) ==
  LET t == d.ms + ms
  IN TimeClip(d.day + days + (t \div MsPerDay), t % MsPerDay)

\* a <= b on Dates (on their time values): false when either is NaN.
DateLE(a, b) ==
  /\ a.valid /\ b.valid
  /\ (a.day < b.day \/ (a.day = b.day /\ a.ms <= b.ms))

DateLT(a, b) ==
  /\ a.valid /\ b.valid
  /\ (a.day < b.day \/ (a.day = b.day /\ a.ms < b.ms))

TwoDigit(n) == IF n < 10 THEN "0" \o ToString(n) ELSE ToString(n)

\* d.toLocaleTimeString('en-US', {hour: 'numeric', minute: withMinute ?
\* '2-digit' : undefined, hour12: true})
ToLocaleTimeString(d, withMinute) ==
  IF ~d.valid THEN "Invalid Date"
  ELSE LET h == d.ms \div MsPerHour
           m == (d.ms \div MsPerMinute) % 60
           h12 == IF h % 12 = 0 THEN 12 ELSE h % 12
       IN ToString(h12)
            \o (IF withMinute THEN ":" \o TwoDigit(m) ELSE "")
            \o (IF h < 12 THEN " AM" ELSE " PM")

----------------------------------------------------------------------------
(* The relative durations "in N hours", "in N minutes" *)

\* input.match(/in (\d+) hours?/) and input.match(/in (\d+) minutes?/):
\* match[1] of the leftmost match, <<>> when there is none.  unit is
\* " hour" or " minute"; the optional "s" decides nothing.
DurationAt(s, i, unit) ==
  /\ StartsAt(s, i, S_in)
  /\ DigitAt(s, i + 3)
  /\ StartsAt(s, SkipDigits(s, i + 3), unit)

DurationMatch(s, unit) ==
  LET hits == {i \in 1..Len(s) : DurationAt(s, i, unit)}
      i0 == CHOOSE i \in hits : \A j \in hits : i <= j
  IN IF hits = {} THEN <<>> ELSE SubSeq(s, i0 + 3, SkipDigits(s, i0 + 3) - 1)

\* parseInt(match[1]) as whole days and a remainder, in units of which
\* perDay make a day: value = days * perDay + rem.  days is cut off at twice
\* the range of a Date; any date that far ahead is invalid whatever the
\* exact number.
RECURSIVE ParseAmount(_, _, _, _)
ParseAmount(ds, i, acc, perDay) ==
  IF i > Len(ds) THEN acc
  ELSE LET v == 10 * acc.rem + DigitVal(ds[i])
           q == 10 * acc.days + (v \div perDay)
       IN ParseAmount(ds, i + 1,
                      [days |-> IF q > 2 * MaxDateDay THEN 2 * MaxDateDay ELSE q,
                       rem |-> v % perDay],
                      perDay)

Amount(ds, perDay) == ParseAmount(ds, 1, [days |-> 0, rem |-> 0], perDay)

\* `${n}`: the digits without their leading zeros (exact up to 15 digits).
RECURSIVE NumberText(_)
NumberText(ds) ==
  IF Len(ds) > 1 /\ ds[1] = "0" THEN NumberText(Tail(ds)) ELSE Str(ds)

\* n > 1 ? 's' : ''
PluralS(amount) == IF amount.days > 0 \/ amount.rem > 1 THEN "s" ELSE ""

----------------------------------------------------------------------------
(* The day of week table and the weekday arithmetic *)

daysOfWeek ==
  <<
    [day |-> <<"s", "u", "n", "d", "a", "y">>, dayNum |-> 0],
    [day |-> <<"s", "u", "n">>, dayNum |-> 0],
    [day |-> <<"m", "o", "n", "d", "a", "y">>, dayNum |-> 1],
    [day |-> <<"m", "o", "n">>, dayNum |-> 1],
    [day |-> <<"t", "u", "e", "s", "d", "a", "y">>, dayNum |-> 2],
    [day |-> <<"t", "u", "e">>, dayNum |-> 2],
    [day |-> <<"t", "u", "e", "s">>, dayNum |-> 2],
    [day |-> <<"w", "e", "d", "n", "e", "s", "d", "a", "y">>, dayNum |-> 3],
    [day |-> <<"w", "e", "d">>, dayNum |-> 3],
    [day |-> <<"t", "h", "u", "r", "s", "d", "a", "y">>, dayNum |-> 4],
    [day |-> <<"t", "h", "u">>, dayNum |-> 4],
    [day |-> <<"t", "h", "u", "r", "s">>, dayNum |-> 4],
    [day |-> <<"f", "r", "i", "d", "a", "y">>, dayNum |-> 5],
    [day |-> <<"f", "r", "i">>, dayNum |-> 5],
    [day |-> <<"s", "a", "t", "u", "r", "d", "a", "y">>, dayNum |-> 6],
    [day |-> <<"s", "a", "t">>, dayNum |-> 6]
  >>

ToUpperChar(c) ==
  IF \E n \in 1..26 : LowerCase[n] = c
  THEN UpperCase[CHOOSE n \in 1..26 : LowerCase[n] = c]
  ELSE c

\* day.charAt(0).toUpperCase() + day.slice(1)
Capitalize(day) == Str(<<ToUpperChar(day[1])>> \o Tail(day))

\* The for loop over Object.entries(daysOfWeek): the index of the first
\* entry, in the table's order, with input.includes(prefix + day); 0 when
\* the loop ends without a break.
FirstDayEntry(input, prefix) ==
  LET hits == {k \in 1..Len(daysOfWeek) : Includes(input, prefix \o daysOfWeek[k].day)}
  IN IF hits = {} THEN 0 ELSE CHOOSE k \in hits : \A j \in hits : k <= j

\* let daysUntil = (dayNum - now.getDay() + 7) % 7; if (daysUntil === 0) daysUntil = 7
DaysUntil(dayNum, today) ==
  LET d == (dayNum - today + 7) % 7 IN IF d = 0 THEN 7 ELSE d

\* (6 - now.getDay() + 7) % 7 || 7
DaysUntilSaturday(today) ==
  LET d == (6 - today + 7) % 7 IN IF d = 0 THEN 7 ELSE d

\* daysUntil += 7, for "next <weekday>"
NextWeekdayDays(dayNum, today) == DaysUntil(dayNum, today) + 7

\* time.hours < 18 ? 20 : time.hours
TonightHours(hours) == IF hours < 18 THEN 20 ELSE hours

----------------------------------------------------------------------------
(* parseReminderTime *)

\* The conditions of the if / else-if chain, in the order of the source: the
\* arm whose condition is the first to hold.  "next" is the arm entered on
\* input.includes('next'), "else" the final else.
Arm(input) ==
  IF Includes(input, S_today) THEN "today"
  ELSE IF Includes(input, S_tonight) THEN "tonight"
  ELSE IF Includes(input, S_tomorrow) THEN "tomorrow"
  ELSE IF Includes(input, S_next_week) THEN "next week"
  ELSE IF Includes(input, S_in_an_hour) \/ Includes(input, S_in_1_hour)
       THEN "in an hour"
  ELSE IF Includes(input, S_in_30_minutes) \/ Includes(input, S_in_half_an_hour)
       THEN "in 30 minutes"
  ELSE IF DurationMatch(input, S_hour) # <<>> THEN "in N hours"
  ELSE IF DurationMatch(input, S_minute) # <<>> THEN "in N minutes"
  ELSE IF Includes(input, S_this_weekend) THEN "this weekend"
  ELSE IF Includes(input, S_next) THEN "next"
  ELSE "else"

\* new Date(now.getTime() + 60 * 60 * 1000)
InAnHour(t) == AddTime(t, 0, 60 * 60 * 1000)

\* Thirty minutes counted as seconds: 30 * 60 instead of 30 * 60 * 1000.
InThirtyMinutes_Seconds(t) == AddTime(t, 0, 30 * 60)

\* new Date(now.getTime() + 30 * 60 * 1000)
InThirtyMinutes(t) == AddTime(t, 0, 30 * 60 * 1000)

\* new Date(now.getTime() + hours * 60 * 60 * 1000)
InHours(t, amount) == AddTime(t, amount.days, amount.rem * (60 * 60 * 1000))

\* new Date(now.getTime() + minutes * 60 * 1000)
InMinutes(t, amount) == AddTime(t, amount.days, amount.rem * (60 * 1000))

\* displayText.replace(from, to) on the label that starts displayText; the
\* rest of displayText, " at " and the time, holds neither Today nor Tonight.
Replace(label, from, to) == IF label = from THEN to ELSE label

\* The rollover test with < for <=.
RollsOver_Strict(sameDay, target, t) == DateLT(target, t) /\ sameDay

\* The rollover test: targetDate <= now, and the phrase holds "today" or
\* "tonight".
RollsOver(sameDay, target, t) == DateLE(target, t) /\ sameDay

\* Everything the call derives from the text alone, in the order the source
\* derives it: the lowered and trimmed input, the clock time or its default,
\* the arm of the chain, match[1] of the two duration patterns, the entry
\* of daysOfWeek the arm's loop stops at (0: none, or no loop), and the
\* containment test of the rollover.
Scan(timeString) ==
  LET input == Trim(ToLowerCase(timeString))
      arm == Arm(input)
  IN [input |-> input,
      time0 |-> TimeOrDefault(input),
      arm |-> arm,
      hoursText |-> DurationMatch(input, S_hour),
      minutesText |-> DurationMatch(input, S_minute),
      entry |-> IF arm = "next" THEN FirstDayEntry(input, S_next_sp)
                ELSE IF arm = "else" THEN FirstDayEntry(input, <<>>)
                ELSE 0,
      sameDay |-> Includes(input, S_today) \/ Includes(input, S_tonight)]

\* The arms that set a calendar day and a label, then the code from
\* `if (!displayText)` to the final return.
DayResult(s, t) ==
  LET arm == s.arm
      k == s.entry
      time == IF arm = "tonight"
              THEN [s.time0 EXCEPT !.hours = TonightHours(s.time0.hours)]
              ELSE s.time0
      offset ==
        CASE arm = "tomorrow" -> 1
          [] arm = "next week" -> 7
          [] arm = "this weekend" -> DaysUntilSaturday(GetDay(t))
          [] arm = "next" /\ k > 0 -> NextWeekdayDays(daysOfWeek[k].dayNum, GetDay(t))
          [] arm = "else" /\ k > 0 -> DaysUntil(daysOfWeek[k].dayNum, GetDay(t))
          [] OTHER -> 0
      label ==
        CASE arm = "today" -> "Today"
          [] arm = "tonight" -> "Tonight"
          [] arm = "tomorrow" -> "Tomorrow"
          [] arm = "next week" -> "Next week"
          [] arm = "this weekend" -> "This weekend"
          [] arm = "next" /\ k > 0 -> "Next " \o Capitalize(daysOfWeek[k].day)
          [] arm = "else" /\ k > 0 -> Capitalize(daysOfWeek[k].day)
          [] OTHER -> ""
      matched == label # ""
      target1 == AddDays(t, offset)
      target2 == IF matched THEN target1 ELSE AddDays(target1, 1)
      label2 == IF matched THEN label ELSE "Tomorrow"
      target3 == SetHours(target2, time.hours, time.minutes, time.nan)
      timeStr == ToLocaleTimeString(target3, ~time.nan /\ time.minutes > 0)
      roll == RollsOver(s.sameDay, target3, t)
      target4 == IF roll THEN AddDays(target3, 1) ELSE target3
      label3 == IF roll
                THEN Replace(Replace(label2, "Today", "Tomorrow"), "Tonight", "Tomorrow")
                ELSE label2
  IN [date |-> target4,
      displayText |-> label3 \o " at " \o timeStr,
      isValid |-> matched,
      branch |-> IF ~matched THEN "fallback"
                 ELSE IF arm = "next" THEN "next weekday"
                 ELSE IF arm = "else" THEN "weekday"
                 ELSE arm,
      time |-> time]

\* The four arms that return at once, then the rest of the call.  The
\* result carries the arm taken and the local `time` next to the returned
\* fields.  t is `now`, read once at the top.
Finish(s, t) ==
  LET hours == Amount(s.hoursText, 24)
      minutes == Amount(s.minutesText, 24 * 60)
  IN CASE s.arm = "in an hour" ->
            [date |-> InAnHour(t), displayText |-> "In 1 hour",
             isValid |-> TRUE, branch |-> s.arm, time |-> s.time0]
       [] s.arm = "in 30 minutes" ->
            [date |-> InThirtyMinutes(t), displayText |-> "In 30 minutes",
             isValid |-> TRUE, branch |-> s.arm, time |-> s.time0]
       [] s.arm = "in N hours" ->
            [date |-> InHours(t, hours),
             displayText |-> "In " \o NumberText(s.hoursText)
                               \o " hour" \o PluralS(hours),
             isValid |-> TRUE, branch |-> s.arm, time |-> s.time0]
       [] s.arm = "in N minutes" ->
            [date |-> InMinutes(t, minutes),
             displayText |-> "In " \o NumberText(s.minutesText)
                               \o " minute" \o PluralS(minutes),
             isValid |-> TRUE, branch |-> s.arm, time |-> s.time0]
       [] OTHER -> DayResult(s, t)

\* The ReminderInfo the call returns.
parseReminderTime(timeString, t) ==
  LET r == Finish(Scan(timeString), t)
  IN [date |-> r.date, displayText |-> r.displayText, isValid |-> r.isValid]

----------------------------------------------------------------------------
(* extractTimeFromText: the regular expressions of timePatterns *)

\* \w, on lowered text as on any
IsWordChar(c) ==
  \/ IsDigit(c)
  \/ c = "_"
  \/ \E n \in 1..26 : LowerCase[n] = c \/ UpperCase[n] = c

WordAt(s, i) == i >= 1 /\ i <= Len(s) /\ IsWordChar(s[i])

\* \b in front of position i: a word character on one side only.
Boundary(s, i) == WordAt(s, i - 1) # WordAt(s, i)

\* A piece of a pattern is a literal or white space: \s+ and \s*.
Sp == <<"\\s+">>
SpStar == <<"\\s*">>

\* The position after the pieces matched from i on, 0 when they do not
\* match.  White space is taken greedily; the piece after it starts with a
\* letter or a digit, so that giving white space back never helps.
RECURSIVE MatchTokens(_, _, _)
MatchTokens(s, i, toks) ==
  IF toks = <<>> THEN i
  ELSE IF Head(toks) = Sp
       THEN IF i <= Len(s) /\ IsSpace(s[i])
            THEN MatchTokens(s, SkipSpaces(s, i), Tail(toks))
            ELSE 0
  ELSE IF Head(toks) = SpStar
       THEN MatchTokens(s, SkipSpaces(s, i), Tail(toks))
  ELSE IF StartsAt(s, i, Head(toks))
       THEN MatchTokens(s, i + Len(Head(toks)), Tail(toks))
       ELSE 0

\* (a|b|...) at i, then \b when wordEnd: the position after the first
\* alternative, from the k-th on in their order, that matches and lets the
\* \b match; 0 when none does.
RECURSIVE AltFrom(_, _, _, _, _)
AltFrom(s, i, alts, wordEnd, k) ==
  IF k > Len(alts) THEN 0
  ELSE LET end == MatchTokens(s, i, alts[k])
       IN IF end > 0 /\ (wordEnd => Boundary(s, end)) THEN end
          ELSE AltFrom(s, i, alts, wordEnd, k + 1)

FirstAlt(s, i, alts, wordEnd) == AltFrom(s, i, alts, wordEnd, 1)

\* (minutes?|mins?|hours?|hrs?), each alternative with its optional s first
Units ==
  <<
    <<<<"m", "i", "n", "u", "t", "e", "s">>>>,
    <<<<"m", "i", "n", "u", "t", "e">>>>,
    <<<<"m", "i", "n", "s">>>>,
    <<<<"m", "i", "n">>>>,
    <<<<"h", "o", "u", "r", "s">>>>,
    <<<<"h", "o", "u", "r">>>>,
    <<<<"h", "r", "s">>>>,
    <<<<"h", "r">>>>
  >>

\* in\s+(an?|one)\s*(hour|minute), in the order the alternatives are tried
InAnUnit ==
  <<
    <<<<"i", "n">>, Sp, <<"a", "n">>, SpStar, <<"h", "o", "u", "r">>>>,
    <<<<"i", "n">>, Sp, <<"a", "n">>, SpStar, <<"m", "i", "n", "u", "t", "e">>>>,
    <<<<"i", "n">>, Sp, <<"a">>, SpStar, <<"h", "o", "u", "r">>>>,
    <<<<"i", "n">>, Sp, <<"a">>, SpStar, <<"m", "i", "n", "u", "t", "e">>>>,
    <<<<"i", "n">>, Sp, <<"o", "n", "e">>, SpStar, <<"h", "o", "u", "r">>>>,
    <<<<"i", "n">>, Sp, <<"o", "n", "e">>, SpStar, <<"m", "i", "n", "u", "t", "e">>>>
  >>

\* in\s+(half\s+an?\s+hour|30\s+minutes?)
InHalfAnHour ==
  <<
    <<<<"i", "n">>, Sp, <<"h", "a", "l", "f">>, Sp, <<"a", "n">>, Sp, <<"h", "o", "u", "r">>>>,
    <<<<"i", "n">>, Sp, <<"h", "a", "l", "f">>, Sp, <<"a">>, Sp, <<"h", "o", "u", "r">>>>,
    <<<<"i", "n">>, Sp, <<"3", "0">>, Sp, <<"m", "i", "n", "u", "t", "e", "s">>>>,
    <<<<"i", "n">>, Sp, <<"3", "0">>, Sp, <<"m", "i", "n", "u", "t", "e">>>>
  >>

\* (at|by|around)\s+
AtByAround ==
  <<
    <<<<"a", "t">>, Sp>>,
    <<<<"b", "y">>, Sp>>,
    <<<<"a", "r", "o", "u", "n", "d">>, Sp>>
  >>

\* (today|tonight|tomorrow|this\s+evening|this\s+morning|this\s+afternoon)
DayReferences ==
  <<
    <<<<"t", "o", "d", "a", "y">>>>,
    <<<<"t", "o", "n", "i", "g", "h", "t">>>>,
    <<<<"t", "o", "m", "o", "r", "r", "o", "w">>>>,
    <<<<"t", "h", "i", "s">>, Sp, <<"e", "v", "e", "n", "i", "n", "g">>>>,
    <<<<"t", "h", "i", "s">>, Sp, <<"m", "o", "r", "n", "i", "n", "g">>>>,
    <<<<"t", "h", "i", "s">>, Sp, <<"a", "f", "t", "e", "r", "n", "o", "o", "n">>>>
  >>

\* (this\s+weekend|next\s+week|next\s+month)
WeekReferences ==
  <<
    <<<<"t", "h", "i", "s">>, Sp, <<"w", "e", "e", "k", "e", "n", "d">>>>,
    <<<<"n", "e", "x", "t">>, Sp, <<"w", "e", "e", "k">>>>,
    <<<<"n", "e", "x", "t">>, Sp, <<"m", "o", "n", "t", "h">>>>
  >>

\* (next\s+)?(monday|...|sunday): the optional group taken first
DayNames ==
  <<
    <<<<"n", "e", "x", "t">>, Sp, <<"m", "o", "n", "d", "a", "y">>>>,
    <<<<"n", "e", "x", "t">>, Sp, <<"t", "u", "e", "s", "d", "a", "y">>>>,
    <<<<"n", "e", "x", "t">>, Sp, <<"w", "e", "d", "n", "e", "s", "d", "a", "y">>>>,
    <<<<"n", "e", "x", "t">>, Sp, <<"t", "h", "u", "r", "s", "d", "a", "y">>>>,
    <<<<"n", "e", "x", "t">>, Sp, <<"f", "r", "i", "d", "a", "y">>>>,
    <<<<"n", "e", "x", "t">>, Sp, <<"s", "a", "t", "u", "r", "d", "a", "y">>>>,
    <<<<"n", "e", "x", "t">>, Sp, <<"s", "u", "n", "d", "a", "y">>>>,
    <<<<"m", "o", "n", "d", "a", "y">>>>,
    <<<<"t", "u", "e", "s", "d", "a", "y">>>>,
    <<<<"w", "e", "d", "n", "e", "s", "d", "a", "y">>>>,
    <<<<"t", "h", "u", "r", "s", "d", "a", "y">>>>,
    <<<<"f", "r", "i", "d", "a", "y">>>>,
    <<<<"s", "a", "t", "u", "r", "d", "a", "y">>>>,
    <<<<"s", "u", "n", "d", "a", "y">>>>
  >>

\* (on\s+)?(mon|tue|tues|wed|thu|thurs|fri|sat|sun): the optional group taken first
DayAbbreviations ==
  <<
    <<<<"o", "n">>, Sp, <<"m", "o", "n">>>>,
    <<<<"o", "n">>, Sp, <<"t", "u", "e">>>>,
    <<<<"o", "n">>, Sp, <<"t", "u", "e", "s">>>>,
    <<<<"o", "n">>, Sp, <<"w", "e", "d">>>>,
    <<<<"o", "n">>, Sp, <<"t", "h", "u">>>>,
    <<<<"o", "n">>, Sp, <<"t", "h", "u", "r", "s">>>>,
    <<<<"o", "n">>, Sp, <<"f", "r", "i">>>>,
    <<<<"o", "n">>, Sp, <<"s", "a", "t">>>>,
    <<<<"o", "n">>, Sp, <<"s", "u", "n">>>>,
    <<<<"m", "o", "n">>>>,
    <<<<"t", "u", "e">>>>,
    <<<<"t", "u", "e", "s">>>>,
    <<<<"w", "e", "d">>>>,
    <<<<"t", "h", "u">>>>,
    <<<<"t", "h", "u", "r", "s">>>>,
    <<<<"f", "r", "i">>>>,
    <<<<"s", "a", "t">>>>,
    <<<<"s", "u", "n">>>>
  >>

\* (on\s+)?(the\s+)?, each optional group taken first
OnThe ==
  <<
    <<<<"o", "n">>, Sp, <<"t", "h", "e">>, Sp>>,
    <<<<"o", "n">>, Sp>>,
    <<<<"t", "h", "e">>, Sp>>,
    <<>>
  >>

\* (st|nd|rd|th)
Ordinals ==
  <<
    <<<<"s", "t">>>>,
    <<<<"n", "d">>>>,
    <<<<"r", "d">>>>,
    <<<<"t", "h">>>>
  >>

\* (january|...|december)\s+
Months ==
  <<
    <<<<"j", "a", "n", "u", "a", "r", "y">>, Sp>>,
    <<<<"f", "e", "b", "r", "u", "a", "r", "y">>, Sp>>,
    <<<<"m", "a", "r", "c", "h">>, Sp>>,
    <<<<"a", "p", "r", "i", "l">>, Sp>>,
    <<<<"m", "a", "y">>, Sp>>,
    <<<<"j", "u", "n", "e">>, Sp>>,
    <<<<"j", "u", "l", "y">>, Sp>>,
    <<<<"a", "u", "g", "u", "s", "t">>, Sp>>,
    <<<<"s", "e", "p", "t", "e", "m", "b", "e", "r">>, Sp>>,
    <<<<"o", "c", "t", "o", "b", "e", "r">>, Sp>>,
    <<<<"n", "o", "v", "e", "m", "b", "e", "r">>, Sp>>,
    <<<<"d", "e", "c", "e", "m", "b", "e", "r">>, Sp>>
  >>

\* (morning|afternoon|evening|night)
DayParts ==
  <<
    <<<<"m", "o", "r", "n", "i", "n", "g">>>>,
    <<<<"a", "f", "t", "e", "r", "n", "o", "o", "n">>>>,
    <<<<"e", "v", "e", "n", "i", "n", "g">>>>,
    <<<<"n", "i", "g", "h", "t">>>>
  >>

\* (by\s+end\s+of\s+(day|week|month))
ByEndOf ==
  <<
    <<<<"b", "y">>, Sp, <<"e", "n", "d">>, Sp, <<"o", "f">>, Sp, <<"d", "a", "y">>>>,
    <<<<"b", "y">>, Sp, <<"e", "n", "d">>, Sp, <<"o", "f">>, Sp, <<"w", "e", "e", "k">>>>,
    <<<<"b", "y">>, Sp, <<"e", "n", "d">>, Sp, <<"o", "f">>, Sp, <<"m", "o", "n", "t", "h">>>>
  >>

\* (before|until|due)\s+
Deadlines ==
  <<
    <<<<"b", "e", "f", "o", "r", "e">>, Sp>>,
    <<<<"u", "n", "t", "i", "l">>, Sp>>,
    <<<<"d", "u", "e">>, Sp>>
  >>


\* :\d{2} at p
ColonAt(s, p) == StartsAt(s, p, <<":">>) /\ DigitAt(s, p + 1) /\ DigitAt(s, p + 2)

\* \s*(am|pm)?\b from j on, j after a digit: all the white space and a
\* period; else all the white space; else, the white space given back, none
\* of it.
OptionalPeriodEnd(s, j) ==
  LET m == SkipSpaces(s, j)
  IN IF PeriodAt(s, m) # <<>> /\ Boundary(s, m + 2) THEN m + 2
     ELSE IF Boundary(s, m) THEN m
     ELSE IF m > j THEN j
     ELSE 0

\* \s*(am|pm)\b from j on
PeriodEnd(s, j) ==
  LET m == SkipSpaces(s, j)
  IN IF PeriodAt(s, m) # <<>> /\ Boundary(s, m + 2) THEN m + 2 ELSE 0

\* Every pattern starts with \b and then a letter or a digit: it matches
\* at the start of a word only.
WordStarts(s) == {i \in 1..Len(s) : Boundary(s, i) /\ WordAt(s, i)}

\* Pattern k of timePatterns tried at the start i of a word of the input:
\* the position after the match, 0 when it does not match there.
PatternEnd(s, k, i) ==
    CASE k = 1 ->
           \* /\bin\s+(\d+)\s*(minutes?|mins?|hours?|hrs?)\b/i
           LET j == MatchTokens(s, i, <<<<"i", "n">>, Sp>>)
           IN IF j = 0 \/ ~DigitAt(s, j) THEN 0
              ELSE FirstAlt(s, SkipSpaces(s, SkipDigits(s, j)), Units, TRUE)
      [] k = 2 ->
           \* /\bin\s+(an?|one)\s*(hour|minute)\b/i
           FirstAlt(s, i, InAnUnit, TRUE)
      [] k = 3 ->
           \* /\bin\s+(half\s+an?\s+hour|30\s+minutes?)\b/i
           FirstAlt(s, i, InHalfAnHour, TRUE)
      [] k = 4 ->
           \* /\b(at|by|around)\s+(\d{1,2})(:\d{2})?\s*(am|pm)?\b/i
           LET j == FirstAlt(s, i, AtByAround, FALSE)
               p == j + HourDigits(s, j)
           IN IF j = 0 \/ ~DigitAt(s, j) THEN 0
              ELSE IF ColonAt(s, p) /\ OptionalPeriodEnd(s, p + 3) > 0
                   THEN OptionalPeriodEnd(s, p + 3)
                   ELSE OptionalPeriodEnd(s, p)
      [] k = 5 ->
           \* /\b(\d{1,2})(:\d{2})?\s*(am|pm)\b/i
           LET p == i + HourDigits(s, i)
           IN IF ~DigitAt(s, i) THEN 0
              ELSE IF ColonAt(s, p) THEN PeriodEnd(s, p + 3)
                   ELSE PeriodEnd(s, p)
      [] k = 6 ->
           \* /\b(today|tonight|tomorrow|this\s+evening|...)\b/i
           FirstAlt(s, i, DayReferences, TRUE)
      [] k = 7 ->
           \* /\b(this\s+weekend|next\s+week|next\s+month)\b/i
           FirstAlt(s, i, WeekReferences, TRUE)
      [] k = 8 ->
           \* /\b(next\s+)?(monday|...|sunday)\b/i
           FirstAlt(s, i, DayNames, TRUE)
      [] k = 9 ->
           \* /\b(on\s+)?(mon|tue|tues|wed|thu|thurs|fri|sat|sun)\b/i
           FirstAlt(s, i, DayAbbreviations, TRUE)
      [] k = 10 ->
           \* /\b(on\s+)?(the\s+)?(\d{1,2})(st|nd|rd|th)?\b/i
           LET pre == {a \in 1..Len(OnThe) :
                         /\ MatchTokens(s, i, OnThe[a]) > 0
                         /\ DigitAt(s, MatchTokens(s, i, OnThe[a]))}
               j == MatchTokens(s, i, OnThe[CHOOSE a \in pre : \A b \in pre : a <= b])
               p == j + HourDigits(s, j)
           IN IF pre = {} THEN 0
              ELSE IF FirstAlt(s, p, Ordinals, TRUE) > 0
                   THEN FirstAlt(s, p, Ordinals, TRUE)
                   ELSE IF Boundary(s, p) THEN p ELSE 0
      [] k = 11 ->
           \* /\b(january|...|december)\s+\d{1,2}\b/i
           LET j == FirstAlt(s, i, Months, FALSE)
               p == j + HourDigits(s, j)
           IN IF j = 0 \/ ~DigitAt(s, j) \/ ~Boundary(s, p) THEN 0 ELSE p
      [] k = 12 ->
           \* /\b(morning|afternoon|evening|night)\b/i
           FirstAlt(s, i, DayParts, TRUE)
      [] k = 13 ->
           \* /\b(by\s+end\s+of\s+(day|week|month))\b/i
           FirstAlt(s, i, ByEndOf, TRUE)
      [] OTHER ->
           \* /\b(before|until|due)\s+/i
           FirstAlt(s, i, Deadlines, FALSE)

\* null, and a value that is not null
Null == <<>>
Some(x) == <<x>>

\* timePatterns.length
NumPatterns == 14

NoTextMatch == [found |-> FALSE, index |-> 0, str |-> <<>>]

\* input.match(pattern): the leftmost match of pattern k, match[0] in str;
\* starts is WordStarts(s).
TextMatch(s, k, starts) ==
  LET hits == {i \in starts : PatternEnd(s, k, i) > 0}
      i0 == CHOOSE i \in hits : \A j \in hits : i <= j
  IN IF hits = {} THEN NoTextMatch
     ELSE [found |-> TRUE, index |-> i0,
           str |-> SubSeq(s, i0, PatternEnd(s, k, i0) - 1)]

\* input.match(pattern) for the patterns of the list from the k-th on, in a
\* sequence; starts is WordStarts(input).
RECURSIVE MatchesFrom(_, _, _)
MatchesFrom(input, starts, k) ==
  IF k > NumPatterns THEN <<>>
  ELSE <<TextMatch(input, k, starts)>> \o MatchesFrom(input, starts, k + 1)

\* const input = text.toLowerCase(), and the matches in it.  The lowered
\* text and its word starts are values computed once.
TextMatches(str) ==
  CHOOSE ms \in {MatchesFrom(input, starts, 1) :
                   input \in {ToLowerCase(str)},
                   starts \in {WordStarts(ToLowerCase(str))}} : TRUE

\* The loop on its last pattern-first: the last pattern that matches.
FirstPattern_Last(ms) ==
  LET hits == {k \in 1..NumPatterns : ms[k].found}
  IN IF hits = {} THEN 0 ELSE CHOOSE k \in hits : \A j \in hits : j <= k

\* for (const pattern of timePatterns) { ...; break }: the first pattern, in
\* the order of the list, that matches; 0 when the loop ends without one.
FirstPattern(ms) ==
  LET hits == {k \in 1..NumPatterns : ms[k].found}
  IN IF hits = {} THEN 0 ELSE CHOOSE k \in hits : \A j \in hits : k <= j

\* Everything extractTimeFromText derives from the text alone: the match of
\* every pattern, the pattern the loop breaks at, matchedTimeString, and the
\* Scan of parseReminderTime on it.
ExtractScan(str) ==
  CHOOSE e \in {[matches |-> ms,
                  pattern |-> FirstPattern(ms),
                  matchedTimeString |->
                    IF FirstPattern(ms) = 0 THEN Null
                    ELSE Some(ms[FirstPattern(ms)].str),
                  scan |->
                    Scan(IF FirstPattern(ms) = 0 THEN <<>>
                         ELSE ms[FirstPattern(ms)].str)] :
                   ms \in {TextMatches(str)}} : TRUE

----------------------------------------------------------------------------
(* formatReminderDisplay *)

\* d.toDateString(): the calendar date, or "Invalid Date"
ToDateString(d) == [valid |-> d.valid, day |-> IF d.valid THEN d.day ELSE 0]

\* d.getMinutes() > 0; NaN > 0 is false
HasMinutes(d) == d.valid /\ (d.ms \div MsPerMinute) % 60 > 0

WeekdayNames ==
  <<"Sunday", "Monday", "Tuesday", "Wednesday", "Thursday", "Friday", "Saturday">>

\* d.toLocaleDateString('en-US', { weekday: 'long' })
ToLocaleWeekday(d) == IF d.valid THEN WeekdayNames[GetDay(d) + 1] ELSE "Invalid Date"

\* date.toDateString() === now.toDateString()
IsToday(d, t) == ToDateString(d) = ToDateString(t)

\* Tomorrow taken for the day after tomorrow.
IsTomorrow_DayAfter(d, t) == ToDateString(d) = ToDateString(AddDays(t, 2))

\* tomorrow.setDate(tomorrow.getDate() + 1);
\* date.toDateString() === tomorrow.toDateString()
IsTomorrow(d, t) == ToDateString(d) = ToDateString(AddDays(t, 1))

\* The body of formatReminderDisplay; t is its `now`.
formatReminderDisplay(d, t) ==
  LET timeStr == ToLocaleTimeString(d, HasMinutes(d))
  IN IF IsToday(d, t) THEN "Today at " \o timeStr
     ELSE IF IsTomorrow(d, t) THEN "Tomorrow at " \o timeStr
     ELSE ToLocaleWeekday(d) \o " at " \o timeStr

----------------------------------------------------------------------------
(* The calls: phrases and clock values *)

\* The pieces the phrases are made of: day words, relative durations, clock
\* times in every form extractTime knows (and "at 9", which is none of
\* them), an hour past 23, and words that hold no time at all.
Vocabulary ==
  <<
    <<"t", "o", "d", "a", "y">>,
    <<"t", "o", "n", "i", "g", "h", "t">>,
    <<"T", "o", "m", "o", "r", "r", "o", "w">>,
    <<"n", "e", "x", "t", " ", "w", "e", "e", "k">>,
    <<"t", "h", "i", "s", " ", "w", "e", "e", "k", "e", "n", "d">>,
    <<"F", "r", "i", "d", "a", "y">>,
    <<"n", "e", "x", "t", " ", "f", "r", "i", "d", "a", "y">>,
    <<"s", "a", "t", "u", "r", "d", "a", "y">>,
    <<"n", "e", "x", "t", " ", "m", "o", "n", "t", "h">>,
    <<"m", "y", " ", "f", "r", "i", "e", "n", "d">>,
    <<"n", "e", "x", "t", " ", "t", "i", "m", "e">>,
    <<"i", "n", " ", "a", "n", " ", "h", "o", "u", "r">>,
    <<"i", "n", " ", "o", "n", "e", " ", "h", "o", "u", "r">>,
    <<"i", "n", " ", "1", " ", "h", "o", "u", "r">>,
    <<"i", "n", " ", "h", "a", "l", "f", " ", "a", "n", " ", "h", "o", "u", "r">>,
    <<"i", "n", " ", "3", "0", " ", "m", "i", "n", "u", "t", "e", "s">>,
    <<"i", "n", " ", "0", " ", "m", "i", "n", "u", "t", "e", "s">>,
    <<"i", "n", " ", "2", " ", "h", "o", "u", "r", "s">>,
    <<"i", "n", " ", "4", "5", " ", "m", "i", "n", "u", "t", "e", "s">>,
    <<"i", "n", " ", "1", " ", "m", "i", "n", "u", "t", "e">>,
    <<"i", "n", " ", "2", "4", "0", "0", "0", "0", "0", "0", "0", "0", " ", "h", "o", "u", "r", "s">>,
    <<"a", "t", " ", "3", "p", "m">>,
    <<"3", ":", "3", "0", " ", "p", "m">>,
    <<"1", "5", ":", "0", "0">>,
    <<"1", "2", ":", "0", "5", " ", "A", "M">>,
    <<"8", ":", "1", "5", "p", "m">>,
    <<"a", "t", " ", "9">>,
    <<"2", "5", ":", "0", "0">>,
    <<"w", "a", "t", "e", "r", " ", "t", "h", "e", " ", "p", "l", "a", "n", "t", "s">>
  >>

\* "remind me to call the dentist tomorrow at 3pm"
DentistPhrase ==
  <<"r", "e", "m", "i", "n", "d", " ", "m", "e", " ", "t", "o", " ", "c", "a", "l", "l", " ", "t", "h", "e", " ", "d", "e", "n", "t", "i", "s", "t", " ", "t", "o", "m", "o", "r", "r", "o", "w", " ", "a", "t", " ", "3", "p", "m">>

\* A phrase is one piece, or two pieces in either order with a space
\* between them; one of them may stand in white space, to be trimmed.
Phrases ==
  {Vocabulary[a] : a \in 1..Len(Vocabulary)}
    \cup {Vocabulary[a] \o <<" ">> \o Vocabulary[b] :
            a \in 1..Len(Vocabulary), b \in 1..Len(Vocabulary)}
    \cup {DentistPhrase, <<" ">> \o Vocabulary[1] \o <<" ", " ">>}

\* 2024-01-01 is day 19723, a Monday.
Jan2024(dayOfMonth) == 19723 + dayOfMonth - 1

\* The clock values: every time of TimesOfDay on NumDays consecutive days
\* from Sunday 2024-01-07, so that every weekday is `today` once.
NumDays == 7

TimesOfDay ==
  {0, 9 * MsPerHour, 10 * MsPerHour, 14 * MsPerHour,
   20 * MsPerHour - 1, 20 * MsPerHour, MsPerDay - 1}

Nows ==
  {[valid |-> TRUE, day |-> d, ms |-> ms] :
     d \in Jan2024(7)..(Jan2024(7) + NumDays - 1), ms \in TimesOfDay}

\* The pieces of the texts handed to extractTimeFromText: for every pattern
\* of timePatterns a piece it matches, and pieces that hold no time.
TextVocabulary ==
  <<
    <<"i", "n", " ", "5", " ", "m", "i", "n", "s">>,
    <<"i", "n", " ", "2", " ", "h", "o", "u", "r", "s">>,
    <<"i", "n", " ", "a", "n", " ", "h", "o", "u", "r">>,
    <<"i", "n", " ", "o", "n", "e", " ", "m", "i", "n", "u", "t", "e">>,
    <<"i", "n", " ", "h", "a", "l", "f", " ", "a", "n", " ", "h", "o", "u", "r">>,
    <<"a", "t", " ", "3", "p", "m">>,
    <<"a", "r", "o", "u", "n", "d", " ", "7">>,
    <<"b", "y", " ", "5", ":", "3", "0", " ", "p", "m">>,
    <<"3", ":", "3", "0", " ", "p", "m">>,
    <<"T", "o", "m", "o", "r", "r", "o", "w">>,
    <<"t", "h", "i", "s", " ", "e", "v", "e", "n", "i", "n", "g">>,
    <<"n", "e", "x", "t", " ", "w", "e", "e", "k">>,
    <<"n", "e", "x", "t", " ", "f", "r", "i", "d", "a", "y">>,
    <<"M", "o", "n", "d", "a", "y">>,
    <<"o", "n", " ", "t", "u", "e">>,
    <<"o", "n", " ", "t", "h", "e", " ", "1", "5", "t", "h">>,
    <<"j", "a", "n", "u", "a", "r", "y", " ", "5">>,
    <<"m", "o", "r", "n", "i", "n", "g">>,
    <<"b", "y", " ", "e", "n", "d", " ", "o", "f", " ", "d", "a", "y">>,
    <<"b", "e", "f", "o", "r", "e", " ", "l", "u", "n", "c", "h">>,
    <<"w", "a", "t", "e", "r", " ", "t", "h", "e", " ", "p", "l", "a", "n", "t", "s">>,
    <<"c", "a", "l", "l", " ", "m", "o", "m">>
  >>

\* A text is one piece, or two pieces of TextVocabulary in either order
\* with a space between them.
Texts ==
  {Vocabulary[a] : a \in 1..Len(Vocabulary)}
    \cup {TextVocabulary[a] : a \in 1..Len(TextVocabulary)}
    \cup {TextVocabulary[a] \o <<" ">> \o TextVocabulary[b] :
            a \in 1..Len(TextVocabulary), b \in 1..Len(TextVocabulary)}
    \cup {DentistPhrase}

\* The clock values of the calls of extractTimeFromText: a Wednesday and a
\* Saturday, in the morning and at 20:00.
ExtractNows ==
  {t \in Nows : GetDay(t) \in {3, 6} /\ t.ms \in {10 * MsPerHour, 20 * MsPerHour}}

\* ExtractScan of every text, computed once.
ExtractScanOf == [t \in Texts |-> ExtractScan(t)]

\* The dates handed to formatReminderDisplay: from the day before the first
\* clock value to a week past the last one, at times of day with and
\* without minutes and seconds.
FormatTimes ==
  {0, 5 * MsPerMinute, 9 * MsPerHour, 12 * MsPerHour,
   12 * MsPerHour + 30 * 1000, 15 * MsPerHour + 30 * MsPerMinute, MsPerDay - 1}

FormatDates ==
  {[valid |-> TRUE, day |-> d, ms |-> ms] :
     d \in (Jan2024(7) - 1)..(Jan2024(7) + NumDays + 6), ms \in FormatTimes}

\* Scan of every phrase, computed once: Scan reads nothing but the phrase.
ScanOf == [p \in Phrases |-> Scan(p)]

----------------------------------------------------------------------------
(* The state machine: one call of parseReminderTime per behaviour *)

NoResult == [date |-> InvalidDate, displayText |-> "", isValid |-> FALSE]

NoExtraction == [hasTime |-> FALSE, timeString |-> Null, reminderInfo |-> Null]

\* The services before any call: no notification requested, no call in
\* flight, no note, no recording, an empty cache, nobody signed in.
ServicesIdle ==
  /\ os = [platform |-> "ios", permission |-> "undetermined",
           scheduled |-> {}, issued |-> 0]
  /\ calls = <<>>
  /\ note = Null
  /\ voice = [recording |-> Null, isRecording |-> FALSE]
  /\ prefs = [cachedPreferences |-> Null, cacheUserId |-> Null]
  /\ backend = [user |-> Null, rows |-> {}]

Init ==
  /\ phrase \in Phrases
  /\ now \in Nows
  /\ pc = "called"
  /\ result = NoResult
  /\ branch = ""
  /\ clock = NoTime
  /\ text = <<>>
  /\ pattern = 0
  /\ extraction = NoExtraction
  /\ date = InvalidDate
  /\ display = ""
  /\ ServicesIdle

\* The body of parseReminderTime, from `const now = new Date()` to a return.
Resolve ==
  /\ pc = "called"
  /\ LET r == Finish(ScanOf[phrase], now)
     IN /\ result' = [date |-> r.date, displayText |-> r.displayText,
                      isValid |-> r.isValid]
        /\ branch' = r.branch
        /\ clock' = r.time
  /\ pc' = "returned"
  /\ UNCHANGED <<phrase, now, text, pattern, extraction, date, display>>
  /\ UNCHANGED serviceVars

Next == Resolve

Spec == Init /\ [][Next]_vars

----------------------------------------------------------------------------
(* The state machine: one call of extractTimeFromText per behaviour *)

ExtractInit ==
  /\ text \in Texts
  /\ now \in ExtractNows
  /\ pc = "extract"
  /\ phrase = <<>>
  /\ result = NoResult
  /\ branch = ""
  /\ clock = NoTime
  /\ pattern = 0
  /\ extraction = NoExtraction
  /\ date = InvalidDate
  /\ display = ""
  /\ ServicesIdle

\* The result without its reminderInfo.
Extraction_NoInfo(matchedTimeString, reminderInfo) ==
  IF matchedTimeString = Null \/ matchedTimeString[1] = <<>>
  THEN [hasTime |-> FALSE, timeString |-> Null, reminderInfo |-> Null]
  ELSE [hasTime |-> TRUE, timeString |-> matchedTimeString, reminderInfo |-> Null]

\* The two returns: if (!matchedTimeString) return {false, null, null};
\* return {hasTime: true, timeString: matchedTimeString, reminderInfo}
Extraction(matchedTimeString, reminderInfo) ==
  IF matchedTimeString = Null \/ matchedTimeString[1] = <<>>
  THEN [hasTime |-> FALSE, timeString |-> Null, reminderInfo |-> Null]
  ELSE [hasTime |-> TRUE, timeString |-> matchedTimeString,
        reminderInfo |-> Some(reminderInfo)]

\* The body of extractTimeFromText: the loop over timePatterns, then the
\* call of parseReminderTime on the matched string, whose argument, arm and
\* local `time` are kept in phrase, branch and clock.
ExtractTimeFromText ==
  /\ pc = "extract"
  /\ \E e \in {ExtractScanOf[text]} :
       /\ pattern' = e.pattern
       /\ IF e.matchedTimeString = Null \/ e.matchedTimeString[1] = <<>>
          THEN /\ extraction' = Extraction(e.matchedTimeString, NoResult)
               /\ UNCHANGED <<phrase, result, branch, clock>>
          ELSE \E r \in {Finish(e.scan, now)} :
                 /\ phrase' = e.matchedTimeString[1]
                 /\ result' = [date |-> r.date, displayText |-> r.displayText,
                               isValid |-> r.isValid]
                 /\ branch' = r.branch
                 /\ clock' = r.time
                 /\ extraction' = Extraction(e.matchedTimeString, result')
  /\ pc' = "extracted"
  /\ UNCHANGED <<text, now, date, display>>
  /\ UNCHANGED serviceVars

ExtractNext == ExtractTimeFromText

ExtractSpec == ExtractInit /\ [][ExtractNext]_vars

----------------------------------------------------------------------------
(* The state machine: one call of formatReminderDisplay per behaviour *)

FormatInit ==
  /\ date \in FormatDates
  /\ now \in Nows
  /\ pc = "format"
  /\ display = ""
  /\ phrase = <<>>
  /\ result = NoResult
  /\ branch = ""
  /\ clock = NoTime
  /\ text = <<>>
  /\ pattern = 0
  /\ extraction = NoExtraction
  /\ ServicesIdle

FormatReminderDisplay ==
  /\ pc = "format"
  /\ display' = formatReminderDisplay(date, now)
  /\ pc' = "formatted"
  /\ UNCHANGED <<date, now, phrase, result, branch, clock, text, pattern, extraction>>
  /\ UNCHANGED serviceVars

FormatNext == FormatReminderDisplay

FormatSpec == FormatInit /\ [][FormatNext]_vars

----------------------------------------------------------------------------
(* What the claims speak of *)

Returned == pc = "returned"

At(day, ms) == [valid |-> TRUE, day |-> day, ms |-> ms]

\* now + ms milliseconds, for ms below a day, by plain arithmetic.
Later(t, ms) == At(t.day + ((t.ms + ms) \div MsPerDay), (t.ms + ms) % MsPerDay)

\* The clock time a phrase states, as the specification reads it: the first
\* of the forms H:MM am/pm, H am/pm, H:MM; pm with H < 12 is H + 12, 12 am
\* is 0, the minute is MM or 0; 09:00 when the phrase holds none.
StatedHour(h, period) ==
  IF period = S_pm /\ h < 12 THEN h + 12
  ELSE IF period = S_am /\ h = 12 THEN 0 ELSE h

StatedTime(str) ==
  LET m1 == StrMatch(str, 1)
      m2 == StrMatch(str, 2)
      m3 == StrMatch(str, 3)
  IN IF m1.found
     THEN [hours |-> StatedHour(ParseInt(m1.g1).val, m1.g3),
           minutes |-> ParseInt(m1.g2).val]
     ELSE IF m2.found
     THEN [hours |-> StatedHour(ParseInt(m2.g1).val, m2.g2), minutes |-> 0]
     ELSE IF m3.found
     THEN [hours |-> ParseInt(m3.g1).val, minutes |-> ParseInt(m3.g2).val]
     ELSE [hours |-> 9, minutes |-> 0]

StatedOf == [p \in Phrases |-> StatedTime(Trim(ToLowerCase(p)))]

\* The stated clock time on a calendar day (an hour past 23 counts on into
\* the next day, as setHours counts it).
StatedDate(day, time) ==
  At(day + ((time.hours * MsPerHour + time.minutes * MsPerMinute) \div MsPerDay),
     (time.hours * MsPerHour + time.minutes * MsPerMinute) % MsPerDay)

\* Whether the lowered phrase holds the text.
Holds(p, sub) == Includes(ToLowerCase(p), sub)

HoldsOf ==
  [p \in Phrases |->
     [thirty |-> Holds(p, S_in_30_minutes),
      earlier |-> \/ Holds(p, S_today) \/ Holds(p, S_tonight)
                  \/ Holds(p, S_tomorrow) \/ Holds(p, S_next_week)
                  \/ Holds(p, S_in_an_hour) \/ Holds(p, S_in_1_hour),
      weekend |-> Holds(p, S_this_weekend)]]

\* Days from `today` to the next dayNum, 1..7, written out from the claims.
StatedDays(dayNum, today) ==
  IF (dayNum - today + 7) % 7 = 0 THEN 7 ELSE (dayNum - today + 7) % 7

----------------------------------------------------------------------------
(* The claims *)

\* C1 (as stated; refuted): every call returns a set, concrete date, never
\* an invalid one, whichever branch is taken and whichever clock-time form
\* the phrase holds.
C1_Totality == Returned => result.date.valid

\* C2 (as stated; refuted): the returned date is strictly after now, for
\* every phrase and every now.
C2_Future == Returned => DateLT(now, result.date)

\* C3 (as stated; refuted): at Wednesday 2024-01-10 14:00, "remind me to
\* call the dentist tomorrow at 3pm" gives 2024-01-11 15:00, the label
\* "Tomorrow at 3:00 PM" and isValid = true.
C3_Scenario ==
  (Returned /\ phrase = DentistPhrase /\ now = At(Jan2024(10), 14 * MsPerHour))
    => result = [date |-> At(Jan2024(11), 15 * MsPerHour),
                 displayText |-> "Tomorrow at 3:00 PM",
                 isValid |-> TRUE]

\* C4 (as stated; refuted): isValid is false exactly on the fallback path,
\* and on that path the date is the calendar day after now at the phrase's
\* clock time (09:00 when it has none).
C4_PrecisionFlag ==
  Returned =>
    /\ (result.isValid = FALSE) <=> (branch = "fallback")
    /\ branch = "fallback" => result.date = StatedDate(now.day + 1, StatedOf[phrase])

\* C5 (as stated; refuted): every phrase that holds "in 30 minutes" gives
\* now + 30 minutes, whatever else it holds.
C5_AnySurroundings ==
  (Returned /\ HoldsOf[phrase].thirty) => result.date = Later(now, 30 * MsPerMinute)

\* C5 (amended): a phrase that holds "in 30 minutes" and none of "today",
\* "tonight", "tomorrow", "next week", "in an hour", "in 1 hour" gives
\* now + 30 minutes, whatever else (a clock time, "this weekend", a weekday
\* name) it holds.
C5_NoEarlierTrigger ==
  (Returned /\ HoldsOf[phrase].thirty /\ ~HoldsOf[phrase].earlier)
    => result.date = Later(now, 30 * MsPerMinute)

\* C5 witness: "in 30 minutes" next to "this weekend" or a clock time, shortly
\* before midnight, resolved to half an hour later, on the next day.
C5_Witness ==
  /\ Returned
  /\ HoldsOf[phrase].thirty /\ ~HoldsOf[phrase].earlier
  /\ HoldsOf[phrase].weekend \/ clock.found
  /\ now.ms = MsPerDay - 1
  /\ result.date = At(now.day + 1, 30 * MsPerMinute - 1)

\* C6: "tonight" with no clock time gives 20:00 on now's day when now is
\* before 20:00, and 20:00 on the next day, labelled Tomorrow, when now is
\* at or past 20:00.
C6_TonightDefault ==
  (Returned /\ branch = "tonight" /\ ~clock.found) =>
    IF now.ms < 20 * MsPerHour
    THEN /\ result.date = At(now.day, 20 * MsPerHour)
         /\ result.displayText = "Tonight at 8 PM"
    ELSE /\ result.date = At(now.day + 1, 20 * MsPerHour)
         /\ result.displayText = "Tomorrow at 8 PM"

\* C6 witness: "tonight" asked at 20:00:00.000 sharp rolls to the next day.
C6_Witness ==
  /\ Returned /\ branch = "tonight" /\ ~clock.found
  /\ now.ms = 20 * MsPerHour
  /\ result.date = At(now.day + 1, 20 * MsPerHour)
  /\ result.displayText = "Tomorrow at 8 PM"

\* C7 (as stated; refuted): through the bare weekday branch the date is d
\* days after now's day, d = (targetDow - today + 7) % 7 or 7 when that is
\* 0, at the phrase's clock time; never today; on a Wednesday "Friday" is 2
\* days later.
C7_BareWeekday ==
  (Returned /\ branch = "weekday") =>
    LET d == StatedDays(daysOfWeek[ScanOf[phrase].entry].dayNum, GetDay(now))
    IN /\ d \in 1..7
       /\ result.date = StatedDate(now.day + d, StatedOf[phrase])
       /\ result.date.day > now.day
       /\ (GetDay(now) = 3 /\ daysOfWeek[ScanOf[phrase].entry].dayNum = 5) => d = 2

\* C8 (as stated; refuted): through the "next <weekday>" branch the date is
\* d + 7 days after now's day, 8..14 days, at the phrase's clock time; on a
\* Wednesday "next Friday" is 9 days later.
C8_NextWeekday ==
  (Returned /\ branch = "next weekday") =>
    LET d == StatedDays(daysOfWeek[ScanOf[phrase].entry].dayNum, GetDay(now))
    IN /\ d + 7 \in 8..14
       /\ result.date = StatedDate(now.day + d + 7, StatedOf[phrase])
       /\ (GetDay(now) = 3 /\ daysOfWeek[ScanOf[phrase].entry].dayNum = 5) => d + 7 = 9

\* C9 (as stated; refuted): through the "this weekend" branch the date is
\* the next Saturday strictly after today, at the phrase's clock time, 09:00
\* when it has none, with isValid = true; asked on Saturday 2024-01-13 at
\* 10:00, "this weekend" is 2024-01-20 09:00.
C9_ThisWeekend ==
  (Returned /\ branch = "this weekend") =>
    /\ result.isValid
    /\ result.date = StatedDate(now.day + StatedDays(6, GetDay(now)), StatedOf[phrase])
    /\ result.date.day > now.day
    /\ ~clock.found => result.date.ms = 9 * MsPerHour
    /\ (now = At(Jan2024(13), 10 * MsPerHour) /\ ~clock.found)
         => result.date = At(Jan2024(20), 9 * MsPerHour)

\* C10: with no clock time in the phrase, and a branch other than tonight
\* and the relative durations, the time of day is exactly 09:00:00.000; a
\* phrase resolved by "tomorrow" lands at 09:00 on the day after now.
C10_DefaultTime ==
  (/\ Returned
   /\ ~clock.found
   /\ branch \notin {"tonight", "in an hour", "in 30 minutes",
                     "in N hours", "in N minutes"})
    => /\ result.date.valid
       /\ result.date.ms = 9 * MsPerHour
       /\ branch = "tomorrow" => result.date = At(now.day + 1, 9 * MsPerHour)

\* C10 witness: "tomorrow" alone, resolved to 09:00 on the next day.
C10_Witness ==
  /\ Returned /\ branch = "tomorrow" /\ ~clock.found
  /\ result.date = At(now.day + 1, 9 * MsPerHour)
  /\ result.displayText = "Tomorrow at 9 AM"

----------------------------------------------------------------------------
(* The branch chain as the claims state it *)

S_in_one_hour ==
  <<"i", "n", " ", "o", "n", "e", " ", "h", "o", "u", "r">>

\* The branch whose trigger is the first to occur in the lowered phrase, in
\* the stated order: today, tonight, tomorrow, next week, in an / one / 1
\* hour, in 30 minutes / half an hour, in N hours, in N minutes, this
\* weekend, next <weekday>, bare weekday, fallback.
StatedBranch(input) ==
  IF Includes(input, S_today) THEN "today"
  ELSE IF Includes(input, S_tonight) THEN "tonight"
  ELSE IF Includes(input, S_tomorrow) THEN "tomorrow"
  ELSE IF Includes(input, S_next_week) THEN "next week"
  ELSE IF \/ Includes(input, S_in_an_hour) \/ Includes(input, S_in_one_hour)
          \/ Includes(input, S_in_1_hour)
       THEN "in an hour"
  ELSE IF Includes(input, S_in_30_minutes) \/ Includes(input, S_in_half_an_hour)
       THEN "in 30 minutes"
  ELSE IF DurationMatch(input, S_hour) # <<>> THEN "in N hours"
  ELSE IF DurationMatch(input, S_minute) # <<>> THEN "in N minutes"
  ELSE IF Includes(input, S_this_weekend) THEN "this weekend"
  ELSE IF \E k \in 1..Len(daysOfWeek) : Includes(input, S_next_sp \o daysOfWeek[k].day)
       THEN "next weekday"
  ELSE IF \E k \in 1..Len(daysOfWeek) : Includes(input, daysOfWeek[k].day)
       THEN "weekday"
  ELSE "fallback"

StatedBranchOf == [p \in Phrases |-> StatedBranch(Trim(ToLowerCase(p)))]

\* now + N units of unitMs milliseconds, N = amount.days * perDay +
\* amount.rem units, by plain arithmetic, whatever the size of N.
LaterBy(t, amount, unitMs) ==
  At(t.day + amount.days + ((t.ms + amount.rem * unitMs) \div MsPerDay),
     (t.ms + amount.rem * unitMs) % MsPerDay)

\* The plural "s" of a label, for every amount but 1.
StatedPlural(amount) == IF amount.days = 0 /\ amount.rem = 1 THEN "" ELSE "s"

\* C13 (as stated; refuted): a phrase that holds "in an hour", "in one
\* hour" or "in 1 hour", and no trigger of an earlier branch, gives exactly
\* now + 60 minutes, the label "In 1 hour" and isValid = true.
C13_OneHour ==
  (Returned /\ StatedBranchOf[phrase] = "in an hour")
    => result = [date |-> Later(now, 60 * MsPerMinute),
                 displayText |-> "In 1 hour",
                 isValid |-> TRUE]

\* C14 (as stated; refuted): a phrase that matches "in N hours?" ("in N
\* minutes?"), with no trigger of an earlier branch, gives exactly now + N
\* hours (minutes), isValid = true and the label "In N hour" ("In N
\* minute") with an "s" when N is not 1; the hours branch is taken when
\* both amounts are present.
C14_Durations ==
  LET s == ScanOf[phrase]
      hours == Amount(s.hoursText, 24)
      minutes == Amount(s.minutesText, 24 * 60)
  IN /\ (Returned /\ StatedBranchOf[phrase] = "in N hours")
          => /\ branch = "in N hours"
             /\ result.date = LaterBy(now, hours, MsPerHour)
             /\ result.displayText =
                  "In " \o NumberText(s.hoursText) \o " hour" \o StatedPlural(hours)
             /\ result.isValid
     /\ (Returned /\ StatedBranchOf[phrase] = "in N minutes")
          => /\ branch = "in N minutes"
             /\ result.date = LaterBy(now, minutes, MsPerMinute)
             /\ result.displayText =
                  "In " \o NumberText(s.minutesText) \o " minute" \o StatedPlural(minutes)
             /\ result.isValid

\* C17 (as stated; refuted): the clock time of the phrase is the first of
\* H:MM am/pm, H am/pm, H:MM that matches, as a 24-hour pair: pm with H < 12
\* is H + 12, 12 am is 0, 12 pm is 12, the minute is MM or 0 ("3pm" is
\* 15:00, "3:30 pm" is 15:30); (9, 0) when none matches.  Read off the
\* local `time` in every branch that does not rewrite it.
C17_ClockTime ==
  (Returned /\ branch # "tonight")
    => /\ ~clock.nan
       /\ clock.hours = StatedOf[phrase].hours
       /\ clock.minutes = StatedOf[phrase].minutes

\* The time of day of a clock time, an hour past 23 counted round.
TimeOfDay(time) == (time.hours * MsPerHour + time.minutes * MsPerMinute) % MsPerDay

\* C18 (as stated; refuted): through the tonight branch the hour becomes 20
\* only when the phrase holds no clock time; with a clock time in the
\* phrase the resolved time of day is that hour and minute, whatever they
\* are.
C18_TonightExplicit ==
  (Returned /\ branch = "tonight") =>
    IF clock.found
    THEN /\ ~clock.nan
         /\ clock.hours = StatedOf[phrase].hours
         /\ clock.minutes = StatedOf[phrase].minutes
         /\ result.date.valid
         /\ result.date.ms = TimeOfDay(StatedOf[phrase])
    ELSE clock.hours = 20 /\ clock.minutes = 0

\* Date and time of day combined: the local `time` set on a calendar day;
\* an Invalid Date when a part of the time is NaN.
Combined(day, time) == IF time.nan THEN InvalidDate ELSE StatedDate(day, time)

\* The days the stated branch adds to now's day.
StatedOffset(b, entry, today) ==
  CASE b = "tomorrow" -> 1
    [] b = "next week" -> 7
    [] b = "this weekend" -> StatedDays(6, today)
    [] b = "next weekday" -> StatedDays(daysOfWeek[entry].dayNum, today) + 7
    [] b = "weekday" -> StatedDays(daysOfWeek[entry].dayNum, today)
    [] b = "fallback" -> 1
    [] OTHER -> 0

\* The label in front of " at <time>".
LabelIs(label) ==
  result.displayText
    = label \o " at " \o ToLocaleTimeString(result.date, ~clock.nan /\ clock.minutes > 0)

\* C19 (as stated; refuted): through the today and tonight branches, a
\* combined date and time not strictly after now is advanced by one day and
\* labelled Tomorrow, and one strictly after now is returned as it is,
\* labelled Today or Tonight; through every other day branch nothing rolls
\* over: the date is the branch's day at the time of day.
C19_Rollover ==
  LET combined == Combined(now.day, clock)
  IN /\ (Returned /\ branch \in {"today", "tonight"}) =>
          IF DateLT(now, combined)
          THEN /\ result.date = combined
               /\ LabelIs(IF branch = "today" THEN "Today" ELSE "Tonight")
          ELSE /\ result.date = AddDays(combined, 1)
               /\ LabelIs("Tomorrow")
     /\ (Returned /\ branch \in {"tomorrow", "next week", "this weekend",
                                 "next weekday", "weekday", "fallback"}) =>
          result.date
            = Combined(now.day + StatedOffset(branch, ScanOf[phrase].entry, GetDay(now)),
                       clock)

\* C20 (as stated; refuted): exactly one branch sets the date, the first in
\* the stated order whose trigger occurs in the phrase.
C20_Precedence == Returned => branch = StatedBranchOf[phrase]

----------------------------------------------------------------------------
(* The claims on extractTimeFromText, under ExtractSpec *)

Extracted == pc = "extracted"

\* Whether any pattern of the list matches anywhere in the text.
AnyMatch == \E k \in 1..NumPatterns : ExtractScanOf[text].matches[k].found

WaterThePlants ==
  <<"w", "a", "t", "e", "r", " ", "t", "h", "e", " ", "p", "l", "a", "n", "t", "s">>

\* C11: when no pattern matches the text the result is hasTime = false,
\* timeString = null, reminderInfo = null, as for "water the plants"; when
\* some pattern matches it is hasTime = true with a timeString that is not
\* null, a substring of the lowered text, and a reminderInfo that is not
\* null, the ReminderInfo of that substring.
C11_NoExpression ==
  Extracted =>
    /\ ~AnyMatch =>
         extraction = [hasTime |-> FALSE, timeString |-> Null, reminderInfo |-> Null]
    /\ AnyMatch =>
         /\ extraction.hasTime
         /\ extraction.timeString # Null
         /\ extraction.timeString[1] # <<>>
         /\ Includes(ToLowerCase(text), extraction.timeString[1])
         /\ extraction.reminderInfo # Null
         /\ extraction.reminderInfo[1] = result
         /\ phrase = extraction.timeString[1]
    /\ text = WaterThePlants => ~extraction.hasTime

\* C11 witness: "water the plants" extracted to nothing.
C11_Witness ==
  /\ Extracted
  /\ text = WaterThePlants
  /\ ~AnyMatch
  /\ extraction = [hasTime |-> FALSE, timeString |-> Null, reminderInfo |-> Null]

\* C12: the returned timeString is the match of the first pattern of the
\* list that matches anywhere in the text, wherever the matches of later
\* patterns stand, and of that pattern the leftmost match.
C12_Priority ==
  Extracted =>
    LET ms == ExtractScanOf[text].matches
        input == ToLowerCase(text)
    IN /\ pattern = 0 <=> ~AnyMatch
       /\ pattern > 0 =>
            /\ \A j \in 1..(pattern - 1) : ~ms[j].found
            /\ ms[pattern].found
            /\ extraction.timeString = Some(ms[pattern].str)
            /\ ms[pattern].str
                 = SubSeq(input, ms[pattern].index,
                          ms[pattern].index + Len(ms[pattern].str) - 1)
            /\ \A i \in WordStarts(input) :
                 i < ms[pattern].index => PatternEnd(input, pattern, i) = 0

\* C12 witness: in "Tomorrow at 3pm" the day reference stands first, and
\* the qualified clock time, earlier in the list, is what is returned.
C12_Witness ==
  /\ Extracted
  /\ pattern = 4
  /\ ExtractScanOf[text].matches[6].found
  /\ ExtractScanOf[text].matches[6].index < ExtractScanOf[text].matches[4].index
  /\ extraction.timeString = Some(<<"a", "t", " ", "3", "p", "m">>)

----------------------------------------------------------------------------
(* The claim on formatReminderDisplay, under FormatSpec *)

Formatted == pc = "formatted"

\* A time of day on the 12-hour clock with AM / PM, the minutes shown when
\* they are not zero.
StatedClock(ms) ==
  LET h == ms \div MsPerHour
      m == (ms \div MsPerMinute) % 60
      h12 == IF h = 0 THEN 12 ELSE IF h > 12 THEN h - 12 ELSE h
  IN ToString(h12)
       \o (IF m = 0 THEN ""
           ELSE IF m < 10 THEN ":0" \o ToString(m) ELSE ":" \o ToString(m))
       \o (IF h >= 12 THEN " PM" ELSE " AM")

\* The weekday of a calendar day; day 0, 1970-01-01, was a Thursday.
StatedWeekday(day) ==
  CASE day % 7 = 0 -> "Thursday"
    [] day % 7 = 1 -> "Friday"
    [] day % 7 = 2 -> "Saturday"
    [] day % 7 = 3 -> "Sunday"
    [] day % 7 = 4 -> "Monday"
    [] day % 7 = 5 -> "Tuesday"
    [] OTHER -> "Wednesday"

\* C15: the result is "Today at <time>" exactly when the date is on now's
\* calendar date, "Tomorrow at <time>" exactly when it is on the calendar
\* date of now + 1 day, and "<weekday of the date> at <time>" otherwise;
\* <time> is on the 12-hour clock with AM / PM, minutes shown only when not
\* zero.
C15_Format ==
  Formatted =>
    /\ (display = "Today at " \o StatedClock(date.ms)) <=> (date.day = now.day)
    /\ (display = "Tomorrow at " \o StatedClock(date.ms)) <=> (date.day = now.day + 1)
    /\ (display = StatedWeekday(date.day) \o " at " \o StatedClock(date.ms))
         <=> (date.day \notin {now.day, now.day + 1})

\* C15 witness: a date on the day after now, at 15:30.
C15_Witness ==
  /\ Formatted
  /\ date.day = now.day + 1
  /\ date.ms = 15 * MsPerHour + 30 * MsPerMinute
  /\ display = "Tomorrow at 3:30 PM"

----------------------------------------------------------------------------
(* The label of the result, under Spec *)

\* The relative-day labels a result may carry in front of " at <time>".
StatedLabels ==
  {"Today", "Tonight", "Tomorrow", "Next week", "This weekend"}
    \cup {Capitalize(daysOfWeek[k].day) : k \in 1..Len(daysOfWeek)}
    \cup {"Next " \o Capitalize(daysOfWeek[k].day) : k \in 1..Len(daysOfWeek)}

DurationBranches == {"in an hour", "in 30 minutes", "in N hours", "in N minutes"}

\* C21 (as stated; refuted): outside the four relative-duration branches
\* displayText is a relative-day label, " at " and the time of day of the
\* returned date on the 12-hour clock with AM / PM, minutes left out when
\* zero; through the four duration branches displayText is a pure duration,
\* "In <amount> <unit>", with no " at " and no clock time.
C21_Label ==
  /\ (Returned /\ branch \notin DurationBranches) =>
       /\ result.date.valid
       /\ \E label \in StatedLabels :
            result.displayText = label \o " at " \o StatedClock(result.date.ms)
  /\ (Returned /\ branch \in DurationBranches) =>
       \/ result.displayText \in {"In 1 hour", "In 30 minutes"}
       \/ /\ branch = "in N hours"
          /\ \E s \in {"", "s"} :
               result.displayText
                 = "In " \o NumberText(ScanOf[phrase].hoursText) \o " hour" \o s
       \/ /\ branch = "in N minutes"
          /\ \E s \in {"", "s"} :
               result.displayText
                 = "In " \o NumberText(ScanOf[phrase].minutesText) \o " minute" \o s

\* A weekday name or abbreviation of daysOfWeek stands in the input as a
\* word of its own, a word boundary on either side.
HasWeekdayWord(input) ==
  \E k \in 1..Len(daysOfWeek) :
    \E i \in 1..Len(input) :
      /\ StartsAt(input, i, daysOfWeek[k].day)
      /\ Boundary(input, i)
      /\ Boundary(input, i + Len(daysOfWeek[k].day))

WeekdayWordOf == [p \in Phrases |-> HasWeekdayWord(Trim(ToLowerCase(p)))]

S_next_month == <<"n", "e", "x", "t", " ", "m", "o", "n", "t", "h">>

S_my_friend == <<"m", "y", " ", "f", "r", "i", "e", "n", "d">>

\* C28 (as stated; refuted): the two weekday branches are taken only by a
\* phrase that holds a weekday name or abbreviation as a separate word;
\* "next month" and "my friend" take the fallback, isValid = false.
C28_WeekdayWord ==
  /\ (Returned /\ branch \in {"next weekday", "weekday"}) => WeekdayWordOf[phrase]
  /\ (Returned /\ phrase \in {S_next_month, S_my_friend}) =>
       branch = "fallback" /\ ~result.isValid

----------------------------------------------------------------------------
(* The extractor against the resolver, under ExtractSpec *)

\* Scan of every whole text, computed once.
WholeScanOf == [t \in Texts |-> Scan(t)]

\* C23 (as stated; refuted): whenever hasTime = true, reminderInfo has the
\* date and the isValid of parseReminderTime applied to the whole text, so
\* that for a text with a day reference and a qualified clock time the date
\* falls on the referenced day.
C23_WholeText ==
  (Extracted /\ extraction.hasTime) =>
    LET whole == Finish(WholeScanOf[text], now)
    IN /\ extraction.reminderInfo[1].date = whole.date
       /\ extraction.reminderInfo[1].isValid = whole.isValid

S_hour_word == <<"h", "o", "u", "r">>

S_hr == <<"h", "r">>

\* The duration a string matched by one of the first three patterns names,
\* in milliseconds per unit and an amount of units (whole days and a
\* remainder): "in N minutes|mins|hours|hrs", "in a|an|one hour|minute",
\* "in half an hour".
StatedDuration(str, k) ==
  LET hour == Includes(str, S_hour_word) \/ Includes(str, S_hr)
      digits == SubSeq(str, SkipSpaces(str, 3), SkipDigits(str, SkipSpaces(str, 3)) - 1)
  IN CASE k = 1 -> [amount |-> Amount(digits, IF hour THEN 24 ELSE 24 * 60),
                    unitMs |-> IF hour THEN MsPerHour ELSE MsPerMinute]
       [] k = 2 -> [amount |-> [days |-> 0, rem |-> 1],
                    unitMs |-> IF hour THEN MsPerHour ELSE MsPerMinute]
       [] OTHER -> [amount |-> [days |-> 0, rem |-> 30], unitMs |-> MsPerMinute]

\* C24 (as stated; refuted): a relative duration the extractor recognises
\* with one of its first three patterns is resolved to now plus exactly
\* that duration with isValid = true, never by the fallback.
C24_Recognised ==
  (Extracted /\ pattern \in 1..3) =>
    LET d == StatedDuration(phrase, pattern)
    IN /\ result.isValid
       /\ branch # "fallback"
       /\ result.date = LaterBy(now, d.amount, d.unitMs)

----------------------------------------------------------------------------
(* NotificationService.scheduleNotification                                *)
(*                                                                         *)
(* One call per behaviour.  `date` is the scheduledDate argument and `now` *)
(* the clock of the device, which moves on while the call waits for the    *)
(* notification centre.  os.scheduled holds the pending notification       *)
(* requests, os.issued counts the identifiers handed out.                  *)

\* date instanceof Date && !isNaN(date.getTime()) && date.getTime() > Date.now()
isValidDate(d, t) == d.valid /\ DateLT(t, d)

\* scheduledDate.getTime() - Date.now(), both valid
MsBetween(d, t) == (d.day - t.day) * MsPerDay + d.ms - t.ms

\* Math.floor((scheduledDate.getTime() - Date.now()) / 1000), without the
\* Math.max(1, ...) around it.
SecondsUntil_Floor(d, t) == MsBetween(d, t) \div 1000

\* Math.max(1, Math.floor((scheduledDate.getTime() - Date.now()) / 1000))
SecondsUntil(d, t) ==
  IF MsBetween(d, t) \div 1000 < 1 THEN 1 ELSE MsBetween(d, t) \div 1000

\* The frame of a call of scheduleNotification.
ScheduleFrame(t) ==
  [op |-> "scheduleNotification", pc |-> "called", calledAt |-> t,
   secondsUntil |-> 0, notificationId |-> Null, ret |-> Null, ticks |-> 0]

\* return null, from the guard or from the catch block
ReturnNull(c) == [c EXCEPT !.pc = "returned", !.ret = Null]

\* After requestPermissions returned true: secondsUntil is computed and
\* Notifications.scheduleNotificationAsync is called.
Scheduling(c, t) ==
  [c EXCEPT !.pc = "scheduleNotificationAsync", !.secondsUntil = SecondsUntil(date, t)]

\* The most clock steps a call waits through.
MaxTicks == 2

\* The time that passes while a call waits, in milliseconds.
Delays == {1, 1000, 2 * 1000}

\* The device clock when the call is made: Sunday 2024-01-07 09:00.
ScheduleStart == At(Jan2024(7), 9 * MsPerHour)

\* The dates handed over: Invalid Date, the past, the present instant, and
\* dates from a millisecond to an hour ahead.
ScheduleDates ==
  {InvalidDate, At(Jan2024(6), 9 * MsPerHour)}
    \cup {At(Jan2024(7), 9 * MsPerHour + ms) :
            ms \in {0, 1, 999, 1000, 1500, 3 * 1000, MsPerHour}}

ScheduleInit ==
  /\ date \in ScheduleDates
  /\ now = ScheduleStart
  /\ os \in [platform : {"ios", "android"},
             permission : {"undetermined", "denied", "granted"},
             scheduled : {{}}, issued : {0}]
  /\ calls = <<ScheduleFrame(now)>>
  /\ pc = "schedule"
  /\ phrase = <<>>
  /\ result = NoResult
  /\ branch = ""
  /\ clock = NoTime
  /\ text = <<>>
  /\ pattern = 0
  /\ extraction = NoExtraction
  /\ display = ""
  /\ note = Null
  /\ voice = [recording |-> Null, isRecording |-> FALSE]
  /\ prefs = [cachedPreferences |-> Null, cacheUserId |-> Null]
  /\ backend = [user |-> Null, rows |-> {}]

scheduleFixed == <<resolverVars, date, note, voice, prefs, backend>>

\* Time passes while the call waits at an await.
Tick ==
  /\ calls[1].pc \notin {"called", "returned"}
  /\ calls[1].ticks < MaxTicks
  /\ \E ms \in Delays : now' = AddTime(now, 0, ms)
  /\ calls' = [calls EXCEPT ![1].ticks = @ + 1]
  /\ UNCHANGED <<os, scheduleFixed>>

\* From the call to the first await: the guard on the date, then
\* requestPermissions up to Notifications.getPermissionsAsync().
ScheduleNotification ==
  /\ calls[1].pc = "called"
  /\ calls' = [calls EXCEPT ![1] =
                 IF ~isValidDate(date, now) THEN ReturnNull(@)
                 ELSE [@ EXCEPT !.pc = "getPermissionsAsync"]]
  /\ UNCHANGED <<now, os, scheduleFixed>>

\* getPermissionsAsync settles.  Rejected: requestPermissions returns false
\* from its catch, scheduleNotification throws and returns null from its
\* own.  Granted: the channel on Android, else straight to scheduling.
GetPermissionsAsync ==
  /\ calls[1].pc = "getPermissionsAsync"
  /\ \E ok \in BOOLEAN :
       calls' = [calls EXCEPT ![1] =
                   IF ~ok THEN ReturnNull(@)
                   ELSE IF os.permission # "granted"
                        THEN [@ EXCEPT !.pc = "requestPermissionsAsync"]
                   ELSE IF os.platform = "android"
                        THEN [@ EXCEPT !.pc = "setNotificationChannelAsync"]
                   ELSE Scheduling(@, now)]
  /\ UNCHANGED <<now, os, scheduleFixed>>

\* requestPermissionsAsync settles: the user grants or denies, or the call
\* is rejected.
RequestPermissionsAsync ==
  /\ calls[1].pc = "requestPermissionsAsync"
  /\ \E status \in {"granted", "denied", "rejected"} :
       /\ os' = IF status = "rejected" THEN os
                ELSE [os EXCEPT !.permission = status]
       /\ calls' = [calls EXCEPT ![1] =
                      IF status # "granted" THEN ReturnNull(@)
                      ELSE IF os.platform = "android"
                           THEN [@ EXCEPT !.pc = "setNotificationChannelAsync"]
                      ELSE Scheduling(@, now)]
  /\ UNCHANGED <<now, scheduleFixed>>

\* setNotificationChannelAsync settles (Android only).
SetNotificationChannelAsync ==
  /\ calls[1].pc = "setNotificationChannelAsync"
  /\ \E ok \in BOOLEAN :
       calls' = [calls EXCEPT ![1] =
                   IF ok THEN Scheduling(@, now) ELSE ReturnNull(@)]
  /\ UNCHANGED <<now, os, scheduleFixed>>

\* scheduleNotificationAsync settles: the request is registered under a new
\* identifier, or the call is rejected and nothing is registered.
ScheduleNotificationAsync ==
  /\ calls[1].pc = "scheduleNotificationAsync"
  /\ \E ok \in BOOLEAN :
       IF ok
       THEN /\ os' = [os EXCEPT
                        !.issued = @ + 1,
                        !.scheduled = @ \cup {[id |-> os.issued + 1,
                                               seconds |-> calls[1].secondsUntil]}]
            /\ calls' = [calls EXCEPT ![1].pc = "debugLogScheduledNotifications",
                                      ![1].notificationId = Some(os.issued + 1)]
       ELSE /\ os' = os
            /\ calls' = [calls EXCEPT ![1] = ReturnNull(@)]
  /\ UNCHANGED <<now, scheduleFixed>>

\* debugLogScheduledNotifications settles; getAllScheduledNotifications
\* catches its own errors and the loop reads its fields guardedly, so the
\* call goes on to `return notificationId` either way.
DebugLogScheduledNotifications ==
  /\ calls[1].pc = "debugLogScheduledNotifications"
  /\ calls' = [calls EXCEPT ![1].pc = "returned", ![1].ret = calls[1].notificationId]
  /\ UNCHANGED <<now, os, scheduleFixed>>

ScheduleNext ==
  \/ ScheduleNotification
  \/ GetPermissionsAsync
  \/ RequestPermissionsAsync
  \/ SetNotificationChannelAsync
  \/ ScheduleNotificationAsync
  \/ DebugLogScheduledNotifications
  \/ Tick

ScheduleSpec == ScheduleInit /\ [][ScheduleNext]_vars

\* C25: scheduleNotification never throws; it returns null and registers
\* nothing when the date is invalid, when it is not strictly after the clock
\* at the call, or when permission is not granted; whenever a request is
\* registered its trigger interval is at least one second, and the call
\* returns that request's identifier.
C25_Schedule ==
  /\ calls[1].pc # "threw"
  /\ (/\ calls[1].pc = "returned"
      /\ \/ ~date.valid
         \/ DateLE(date, calls[1].calledAt)
         \/ os.permission # "granted")
       => (calls[1].ret = Null /\ os.scheduled = {})
  /\ \A n \in os.scheduled :
       /\ n.seconds >= 1
       /\ calls[1].pc = "returned" => calls[1].ret = Some(n.id)
  /\ (calls[1].pc = "returned" /\ calls[1].ret # Null) =>
       \E n \in os.scheduled : calls[1].ret = Some(n.id)

\* C25 witness: the date was ahead at the call and lies behind the clock
\* when the interval is computed; the request is registered with an
\* interval of one second and its identifier returned.
C25_Witness ==
  /\ calls[1].pc = "returned"
  /\ DateLT(date, now)
  /\ os.scheduled = {[id |-> 1, seconds |-> 1]}
  /\ calls[1].ret = Some(1)

----------------------------------------------------------------------------
(* createNoteWithReminder (src/unnamed/part_001)                           *)
(*                                                                         *)
(* One call per behaviour, in steps from await to await.  A call of        *)
(* scheduleNotification inside it is taken as one step with the two        *)
(* outcomes the model of scheduleNotification above has: a request         *)
(* registered and its identifier returned, or null and nothing registered. *)

\* Whether scheduleNotification(.., d) at clock t registers a request: never
\* for a date isValidDate rejects, else it may or may not (permission, the
\* notification centre).
ScheduleAttempts(d, t) == IF isValidDate(d, t) THEN BOOLEAN ELSE {FALSE}

\* The notification centre after a request for date d was registered at t.
Registered(o, d, t) ==
  [o EXCEPT !.issued = @ + 1,
            !.scheduled = @ \cup {[id |-> o.issued + 1,
                                   seconds |-> SecondsUntil(d, t)]}]

\* The value scheduleNotification returns.
ScheduledId(o, registered) == IF registered THEN Some(o.issued + 1) ELSE Null

\* const isValidDate = (date) => date instanceof Date &&
\*   !isNaN(date.getTime()) && date.getTime() > 0
NoteIsValidDate(d) == d.valid /\ (d.day > 0 \/ (d.day = 0 /\ d.ms > 0))

\* determineTags, with hasReminderIntent(transcript) as intent.
determineTags(parsedData, intent) ==
  IF parsedData.time # Null /\ intent THEN <<"reminder">>
  ELSE IF parsedData.type = "task" THEN <<"reminder">>
  ELSE IF parsedData.type = "preference" THEN <<"preference">>
  ELSE <<>>

\* tags.includes(tag)
TagsInclude(tags, tag) == \E i \in 1..Len(tags) : tags[i] = tag

\* The time strings parseNote may extract: "Tomorrow", "at 9", "at 3pm",
\* "in 2 hours".
CreateTimes == {Vocabulary[3], Vocabulary[27], Vocabulary[22], Vocabulary[18]}

CreateScanOf == [p \in CreateTimes |-> Scan(p)]

\* What parseNote may resolve to.
ParsedNotes ==
  [time : {Null} \cup {Some(p) : p \in CreateTimes},
   type : {"task", "preference", "note"}]

\* The customReminderTime option: absent, an Invalid Date, yesterday, or
\* tomorrow at 10:00.
CustomTimes ==
  {Null, Some(InvalidDate), Some(At(Jan2024(6), 9 * MsPerHour)),
   Some(At(Jan2024(8), 10 * MsPerHour))}

CreateFrame(forceReminder, customReminderTime, intent) ==
  [op |-> "createNoteWithReminder", pc |-> "parseNote",
   forceReminder |-> forceReminder, customReminderTime |-> customReminderTime,
   intent |-> intent, parsedData |-> Null, tags |-> <<>>,
   reminderInfo |-> Null, notificationId |-> Null, reminder_time |-> Null,
   ret |-> Null]

CreateInit ==
  /\ now = ScheduleStart
  /\ os = [platform |-> "ios", permission |-> "granted",
           scheduled |-> {}, issued |-> 0]
  /\ \E force \in BOOLEAN, custom \in CustomTimes, intent \in BOOLEAN :
       calls = <<CreateFrame(force, custom, intent)>>
  /\ backend \in [user : {Null, Some("u1")}, rows : {{}}]
  /\ note = Null
  /\ pc = "create"
  /\ phrase = <<>>
  /\ result = NoResult
  /\ branch = ""
  /\ clock = NoTime
  /\ text = <<>>
  /\ pattern = 0
  /\ extraction = NoExtraction
  /\ date = InvalidDate
  /\ display = ""
  /\ voice = [recording |-> Null, isRecording |-> FALSE]
  /\ prefs = [cachedPreferences |-> Null, cacheUserId |-> Null]

createFixed == <<resolverVars, now, date, voice, prefs, backend>>

\* The catch block: console.error, throw error.
Throw(c) == [c EXCEPT !.pc = "threw"]

\* await parseNote(transcript) settles.
ParseNote ==
  /\ calls[1].pc = "parseNote"
  /\ \/ calls' = [calls EXCEPT ![1] = Throw(@)]
     \/ \E parsed \in ParsedNotes :
          calls' = [calls EXCEPT ![1].parsedData = Some(parsed),
                                 ![1].pc = "getUser"]
  /\ UNCHANGED <<os, note, createFixed>>

\* await supabase.auth.getUser() settles; then the tags, isReminder, and the
\* call of scheduleReminderForDate or scheduleReminderFromNote (which runs
\* parseReminderTime before its await), or straight to the insert.
GetUser ==
  /\ calls[1].pc = "getUser"
  /\ LET c == calls[1]
         parsed == c.parsedData[1]
         tags == determineTags(parsed, c.intent)
         isReminder == c.forceReminder \/ TagsInclude(tags, "reminder")
         custom == c.customReminderTime
     IN calls' = [calls EXCEPT ![1] =
          IF backend.user = Null THEN Throw(c)
          ELSE IF isReminder /\ custom # Null /\ NoteIsValidDate(custom[1])
               THEN [c EXCEPT !.tags = tags, !.pc = "scheduleReminderForDate"]
          ELSE IF isReminder /\ parsed.time # Null
               THEN [c EXCEPT !.tags = tags,
                              !.reminderInfo =
                                 Some(LET r == Finish(CreateScanOf[parsed.time[1]], now)
                                      IN [date |-> r.date,
                                          displayText |-> r.displayText,
                                          isValid |-> r.isValid]),
                              !.pc = "scheduleReminderFromNote"]
          ELSE [c EXCEPT !.tags = tags, !.pc = "insert"]]
  /\ UNCHANGED <<os, note, createFixed>>

\* await notificationService.scheduleReminderForDate(...) settles.
ScheduleReminderForDate ==
  /\ calls[1].pc = "scheduleReminderForDate"
  /\ LET custom == calls[1].customReminderTime[1]
     IN \E registered \in ScheduleAttempts(custom, now) :
          /\ os' = IF registered THEN Registered(os, custom, now) ELSE os
          /\ calls' = [calls EXCEPT
                         ![1].notificationId = ScheduledId(os, registered),
                         ![1].reminder_time = Some(custom),
                         ![1].pc = "insert"]
  /\ UNCHANGED <<note, createFixed>>

\* await notificationService.scheduleReminderFromNote(...) settles: the
\* notification is scheduled for reminderInfo.date whatever isValid says;
\* the identifier is kept only `if (reminderInfo.isValid &&
\* isValidDate(reminderInfo.date))`.
ScheduleReminderFromNote ==
  /\ calls[1].pc = "scheduleReminderFromNote"
  /\ LET info == calls[1].reminderInfo[1]
         kept == info.isValid /\ NoteIsValidDate(info.date)
     IN \E registered \in ScheduleAttempts(info.date, now) :
          /\ os' = IF registered THEN Registered(os, info.date, now) ELSE os
          /\ calls' = [calls EXCEPT
                         ![1].notificationId =
                            IF kept THEN ScheduledId(os, registered) ELSE Null,
                         ![1].reminder_time =
                            IF kept THEN Some(info.date) ELSE Null,
                         ![1].pc = "insert"]
  /\ UNCHANGED <<note, createFixed>>

\* await supabase.from('notes').insert(noteData).select().single() settles.
InsertNote ==
  /\ calls[1].pc = "insert"
  /\ \/ /\ calls' = [calls EXCEPT ![1] = Throw(@)]
        /\ note' = note
     \/ /\ note' = [notification_id |-> calls[1].notificationId,
                    reminder_time |-> calls[1].reminder_time,
                    tags |-> calls[1].tags,
                    deleted |-> FALSE]
        /\ calls' = [calls EXCEPT
                       ![1].pc = "returned",
                       ![1].ret = Some([reminderScheduled |-> calls[1].notificationId # Null,
                                        notificationId |-> calls[1].notificationId])]
  /\ UNCHANGED <<os, createFixed>>

CreateNext ==
  \/ ParseNote
  \/ GetUser
  \/ ScheduleReminderForDate
  \/ ScheduleReminderFromNote
  \/ InsertNote

CreateSpec == CreateInit /\ [][CreateNext]_vars

\* C22 (as stated; refuted): whenever createNoteWithReminder has finished,
\* by returning or by throwing, every notification scheduled during the
\* call has its identifier in the inserted note's notification_id; with
\* reminderScheduled = false, or after a throw, none is left pending.
C22_NoOrphan ==
  (calls[1].pc \in {"returned", "threw"}) =>
    \A n \in os.scheduled :
      /\ calls[1].pc = "returned"
      /\ calls[1].ret[1].reminderScheduled
      /\ note # Null
      /\ note.notification_id = Some(n.id)

----------------------------------------------------------------------------
(* updateNoteReminder, removeNoteReminder, deleteNote (src/unnamed/part_001) *)
(*                                                                         *)
(* Up to NumCalls calls on one note, each advancing from await to await,   *)
(* in any interleaving.  The note starts with or without a reminder; its   *)
(* notification, when it has one, is request 1 of the notification centre. *)

\* The calls that may be in flight together.
NumCalls == 2

IdleFrame ==
  [op |-> "", pc |-> "idle", reminderTime |-> InvalidDate, fetched |-> Null,
   notificationId |-> Null, ret |-> Null, atCall |-> Null]

\* The note before the calls: a reminder for tomorrow 09:00 held by
\* notification 1, or no reminder at all.
InitialNotes ==
  {[notification_id |-> Some(1),
    reminder_time |-> Some(At(Jan2024(8), 9 * MsPerHour)),
    tags |-> <<"work", "reminder">>, deleted |-> FALSE],
   [notification_id |-> Null, reminder_time |-> Null,
    tags |-> <<"work">>, deleted |-> FALSE]}

\* The reminderTime arguments: tomorrow 10:00, and yesterday.
ReminderTimes == {At(Jan2024(8), 10 * MsPerHour), At(Jan2024(6), 9 * MsPerHour)}

ReminderInit ==
  /\ now = ScheduleStart
  /\ note \in InitialNotes
  /\ os = [platform |-> "ios", permission |-> "granted",
           scheduled |-> IF note.notification_id = Null THEN {}
                         ELSE {[id |-> 1, seconds |-> 24 * 60 * 60]},
           issued |-> 1]
  /\ calls = [i \in 1..NumCalls |-> IdleFrame]
  /\ pc = "reminders"
  /\ phrase = <<>>
  /\ result = NoResult
  /\ branch = ""
  /\ clock = NoTime
  /\ text = <<>>
  /\ pattern = 0
  /\ extraction = NoExtraction
  /\ date = InvalidDate
  /\ display = ""
  /\ voice = [recording |-> Null, isRecording |-> FALSE]
  /\ prefs = [cachedPreferences |-> Null, cacheUserId |-> Null]
  /\ backend = [user |-> Null, rows |-> {}]

reminderFixed == <<resolverVars, now, date, voice, prefs, backend>>

\* A call is made; atCall keeps the note and the pending requests as they
\* are at that moment.
StartCall(i) ==
  /\ calls[i].pc = "idle"
  /\ \E op \in {"updateNoteReminder", "removeNoteReminder", "deleteNote"} :
       \E t \in (IF op = "updateNoteReminder" THEN ReminderTimes ELSE {InvalidDate}) :
         calls' = [calls EXCEPT ![i] =
                     [IdleFrame EXCEPT !.op = op, !.pc = "fetch", !.reminderTime = t,
                                       !.atCall = Some([note |-> note,
                                                        scheduled |-> os.scheduled])]]
  /\ UNCHANGED <<os, note, reminderFixed>>

\* return { success: false } / return false, from the catch block;
\* deleteNote rethrows.
Failed(c) ==
  IF c.op = "deleteNote" THEN [c EXCEPT !.pc = "threw"]
  ELSE [c EXCEPT !.pc = "returned", !.ret = Some([success |-> FALSE])]

\* Where a call goes once the old notification is dealt with.
AfterCancel(c) ==
  [c EXCEPT !.pc = CASE c.op = "updateNoteReminder" -> "schedule"
                     [] c.op = "removeNoteReminder" -> "update"
                     [] OTHER -> "delete"]

\* await supabase.from('notes').select(...).eq('id', noteId).single()
\* settles: an error (always so for a deleted note, no row) or the row.
\* updateNoteReminder and removeNoteReminder throw on the error; deleteNote
\* does not read it and goes on with note = null.
FetchNote(i) ==
  /\ calls[i].pc = "fetch"
  /\ \E ok \in (IF note.deleted THEN {FALSE} ELSE BOOLEAN) :
       calls' = [calls EXCEPT ![i] =
                   IF ~ok
                   THEN IF @.op = "deleteNote" THEN [@ EXCEPT !.pc = "delete"]
                        ELSE Failed(@)
                   ELSE IF note.notification_id # Null
                        THEN [@ EXCEPT !.fetched = Some(note), !.pc = "cancel"]
                   ELSE AfterCancel([@ EXCEPT !.fetched = Some(note)])]
  /\ UNCHANGED <<os, note, reminderFixed>>

\* await notificationService.cancelNotification(note.notification_id)
\* settles: the request is withdrawn, or the notification centre rejects
\* the call and cancelNotification swallows the error.
CancelNotification(i) ==
  /\ calls[i].pc = "cancel"
  /\ \E ok \in BOOLEAN :
       os' = IF ok
             THEN [os EXCEPT !.scheduled =
                     {n \in @ : Some(n.id) # calls[i].fetched[1].notification_id}]
             ELSE os
  /\ calls' = [calls EXCEPT ![i] = AfterCancel(@)]
  /\ UNCHANGED <<note, reminderFixed>>

\* await notificationService.scheduleReminderForDate(...) settles, in
\* updateNoteReminder.
RescheduleReminder(i) ==
  /\ calls[i].pc = "schedule"
  /\ \E registered \in ScheduleAttempts(calls[i].reminderTime, now) :
       /\ os' = IF registered THEN Registered(os, calls[i].reminderTime, now) ELSE os
       /\ calls' = [calls EXCEPT ![i].notificationId = ScheduledId(os, registered),
                                 ![i].pc = "update"]
  /\ UNCHANGED <<note, reminderFixed>>

\* currentTags.includes('reminder') ? currentTags : [...currentTags, 'reminder']
WithReminderTag(tags) ==
  IF TagsInclude(tags, "reminder") THEN tags ELSE Append(tags, "reminder")

\* (note.tags || []).filter(t => t !== 'reminder')
IsNotReminderTag(tag) == tag # "reminder"

WithoutReminderTag(tags) == SelectSeq(tags, IsNotReminderTag)

\* await supabase.from('notes').update({...}).eq('id', noteId) settles: an
\* error, or the row is written (no row and no error when the note is
\* deleted).
UpdateNote(i) ==
  /\ calls[i].pc = "update"
  /\ LET c == calls[i]
         row == IF c.op = "updateNoteReminder"
                THEN [note EXCEPT !.reminder_time = Some(c.reminderTime),
                                  !.notification_id = c.notificationId,
                                  !.tags = WithReminderTag(c.fetched[1].tags)]
                ELSE [note EXCEPT !.reminder_time = Null,
                                  !.notification_id = Null,
                                  !.tags = WithoutReminderTag(c.fetched[1].tags)]
     IN \/ /\ calls' = [calls EXCEPT ![i] = Failed(c)]
           /\ note' = note
        \/ /\ note' = IF note.deleted THEN note ELSE row
           /\ calls' = [calls EXCEPT ![i].pc = "returned",
                                     ![i].ret = Some([success |-> TRUE])]
  /\ UNCHANGED <<os, reminderFixed>>

\* await supabase.from('notes').delete().eq('id', noteId) settles.
DeleteRow(i) ==
  /\ calls[i].pc = "delete"
  /\ \/ /\ calls' = [calls EXCEPT ![i] = Failed(@)]
        /\ note' = note
     \/ /\ note' = [note EXCEPT !.deleted = TRUE]
        /\ calls' = [calls EXCEPT ![i].pc = "returned"]
  /\ UNCHANGED <<os, reminderFixed>>

ReminderNext ==
  \E i \in 1..NumCalls :
    \/ StartCall(i)
    \/ FetchNote(i)
    \/ CancelNotification(i)
    \/ RescheduleReminder(i)
    \/ UpdateNote(i)
    \/ DeleteRow(i)

ReminderSpec == ReminderInit /\ [][ReminderNext]_vars

\* Every call made has completed, and one at least was made.
AllCompleted ==
  /\ \A i \in 1..NumCalls : calls[i].pc \in {"idle", "returned", "threw"}
  /\ \E i \in 1..NumCalls : calls[i].pc # "idle"

\* C26 (as stated; refuted): once all calls on the note have completed,
\* every pending notification is the one whose identifier the note's
\* notification_id holds: none is unreferenced, and none is pending for a
\* deleted note.
C26_Consistent ==
  AllCompleted =>
    \A n \in os.scheduled : ~note.deleted /\ note.notification_id = Some(n.id)

\* The number of times a tag occurs.
TagCount(tags, tag) == Cardinality({k \in 1..Len(tags) : tags[k] = tag})

\* C27 (as stated; refuted): a call of updateNoteReminder, alone on the
\* note, is all or nothing.  With success = false the note and the pending
\* requests are as they were at the call.  With success = true the old
\* notification is cancelled, notification_id is the identifier the new
\* scheduling returned, and the tags are the former ones with 'reminder'
\* exactly once.
C27_AllOrNothing ==
  \A i \in 1..NumCalls :
    (/\ calls[i].op = "updateNoteReminder"
     /\ calls[i].pc = "returned"
     /\ \A j \in 1..NumCalls : j # i => calls[j].pc = "idle")
      => LET before == calls[i].atCall[1]
         IN IF ~calls[i].ret[1].success
            THEN note = before.note /\ os.scheduled = before.scheduled
            ELSE /\ \A n \in os.scheduled : Some(n.id) # before.note.notification_id
                 /\ note.notification_id = calls[i].notificationId
                 /\ TagCount(note.tags, "reminder") = 1
                 /\ WithoutReminderTag(note.tags) = WithoutReminderTag(before.note.tags)

----------------------------------------------------------------------------
(* VoiceService (src/services/voiceService.ts)                             *)
(*                                                                         *)
(* Up to NumCalls calls of startRecording, stopRecording, cancelRecording  *)
(* on the one service object, each advancing from await to await, in any   *)
(* interleaving.  A Recording object is its number; os.permission is the   *)
(* microphone permission, os.issued the Recording objects created.         *)

VoiceIdle ==
  [op |-> "", pc |-> "idle", uri |-> Null, ret |-> Null, atCall |-> Null]

VoiceInit ==
  /\ voice \in {[recording |-> Null, isRecording |-> FALSE],
                [recording |-> Some(1), isRecording |-> TRUE]}
  /\ os \in [platform : {"ios"},
             permission : {"undetermined", "denied", "granted"},
             scheduled : {{}}, issued : {1}]
  /\ calls = [i \in 1..NumCalls |-> VoiceIdle]
  /\ now = ScheduleStart
  /\ pc = "voice"
  /\ phrase = <<>>
  /\ result = NoResult
  /\ branch = ""
  /\ clock = NoTime
  /\ text = <<>>
  /\ pattern = 0
  /\ extraction = NoExtraction
  /\ date = InvalidDate
  /\ display = ""
  /\ note = Null
  /\ prefs = [cachedPreferences |-> Null, cacheUserId |-> Null]
  /\ backend = [user |-> Null, rows |-> {}]

voiceFixed == <<resolverVars, now, date, note, prefs, backend>>

\* catch (error) { console.error(...); throw error; }
VoiceThrow(c) == [c EXCEPT !.pc = "threw"]

\* startRecording is called: up to await Audio.getPermissionsAsync().
StartRecording(i) ==
  /\ calls[i].pc = "idle"
  /\ calls' = [calls EXCEPT ![i] =
                 [VoiceIdle EXCEPT !.op = "startRecording", !.pc = "getPermissionsAsync",
                                   !.atCall = Some(voice)]]
  /\ UNCHANGED <<voice, os, voiceFixed>>

\* hasPermissions settles: granted, and Audio.setAudioModeAsync is called;
\* not granted or rejected (false from the catch), and requestPermissions
\* is called.
HasPermissions(i) ==
  /\ calls[i].pc = "getPermissionsAsync"
  /\ \E ok \in BOOLEAN :
       calls' = [calls EXCEPT ![i].pc =
                   IF ok /\ os.permission = "granted" THEN "setAudioModeAsync"
                   ELSE "requestPermissionsAsync"]
  /\ UNCHANGED <<voice, os, voiceFixed>>

\* requestPermissions settles: granted, or denied or rejected and
\* startRecording throws.
RequestMicrophone(i) ==
  /\ calls[i].pc = "requestPermissionsAsync"
  /\ \E status \in {"granted", "denied", "rejected"} :
       /\ os' = IF status = "rejected" THEN os ELSE [os EXCEPT !.permission = status]
       /\ calls' = [calls EXCEPT ![i] =
                      IF status = "granted" THEN [@ EXCEPT !.pc = "setAudioModeAsync"]
                      ELSE VoiceThrow(@)]
  /\ UNCHANGED <<voice, voiceFixed>>

\* await Audio.setAudioModeAsync({allowsRecordingIOS: true, ...}) settles.
SetAudioMode(i) ==
  /\ calls[i].pc = "setAudioModeAsync"
  /\ \E ok \in BOOLEAN :
       calls' = [calls EXCEPT ![i] =
                   IF ok THEN [@ EXCEPT !.pc = "createAsync"] ELSE VoiceThrow(@)]
  /\ UNCHANGED <<voice, os, voiceFixed>>

\* await Audio.Recording.createAsync(...) settles; this.recording =
\* recording; this.isRecording = true.
CreateRecording(i) ==
  /\ calls[i].pc = "createAsync"
  /\ \/ /\ calls' = [calls EXCEPT ![i] = VoiceThrow(@)]
        /\ UNCHANGED <<voice, os>>
     \/ /\ os' = [os EXCEPT !.issued = @ + 1]
        /\ voice' = [recording |-> Some(os.issued + 1), isRecording |-> TRUE]
        /\ calls' = [calls EXCEPT ![i].pc = "returned"]
  /\ UNCHANGED voiceFixed

\* stopRecording or cancelRecording is called: a return at once when
\* !this.recording, else up to await this.recording.stopAndUnloadAsync().
StopOrCancel(i) ==
  /\ calls[i].pc = "idle"
  /\ \E op \in {"stopRecording", "cancelRecording"} :
       calls' = [calls EXCEPT ![i] =
                   [VoiceIdle EXCEPT !.op = op, !.atCall = Some(voice),
                                     !.pc = IF voice.recording = Null THEN "returned"
                                            ELSE "stopAndUnloadAsync"]]
  /\ UNCHANGED <<voice, os, voiceFixed>>

\* stopAndUnloadAsync settles.  stopRecording then reads
\* this.recording.getURI(), a TypeError when the field is null by now; both
\* set isRecording = false and recording = null and call
\* Audio.setAudioModeAsync({allowsRecordingIOS: false}).
StopAndUnload(i) ==
  /\ calls[i].pc = "stopAndUnloadAsync"
  /\ \E ok \in BOOLEAN :
       IF ~ok \/ (calls[i].op = "stopRecording" /\ voice.recording = Null)
       THEN /\ calls' = [calls EXCEPT ![i] = VoiceThrow(@)]
            /\ voice' = voice
       ELSE /\ voice' = [recording |-> Null, isRecording |-> FALSE]
            /\ calls' = [calls EXCEPT ![i].pc = "resetAudioMode",
                                      ![i].uri = IF calls[i].op = "stopRecording"
                                                 THEN voice.recording ELSE Null]
  /\ UNCHANGED <<os, voiceFixed>>

\* await Audio.setAudioModeAsync({allowsRecordingIOS: false}) settles;
\* return uri / return.
ResetAudioMode(i) ==
  /\ calls[i].pc = "resetAudioMode"
  /\ \E ok \in BOOLEAN :
       calls' = [calls EXCEPT ![i] =
                   IF ok THEN [@ EXCEPT !.pc = "returned", !.ret = calls[i].uri]
                   ELSE VoiceThrow(@)]
  /\ UNCHANGED <<voice, os, voiceFixed>>

VoiceNext ==
  \E i \in 1..NumCalls :
    \/ StartRecording(i)
    \/ HasPermissions(i)
    \/ RequestMicrophone(i)
    \/ SetAudioMode(i)
    \/ CreateRecording(i)
    \/ StopOrCancel(i)
    \/ StopAndUnload(i)
    \/ ResetAudioMode(i)

VoiceSpec == VoiceInit /\ [][VoiceNext]_vars

\* C29 (as stated; refuted): isRecording is true exactly when the recording
\* reference is not null; a call that failed, alone on the service, leaves
\* both fields as they were at the call; stopRecording and cancelRecording
\* called with no recording in progress return null / undefined at once.
C29_Recording ==
  /\ voice.isRecording <=> voice.recording # Null
  /\ \A i \in 1..NumCalls :
       (/\ calls[i].pc = "threw"
        /\ \A j \in 1..NumCalls : j # i => calls[j].pc = "idle")
         => voice = calls[i].atCall[1]
  /\ \A i \in 1..NumCalls :
       (/\ calls[i].op \in {"stopRecording", "cancelRecording"}
        /\ calls[i].atCall[1].recording = Null)
         => /\ calls[i].pc = "returned"
            /\ calls[i].ret = Null
            /\ (\A j \in 1..NumCalls : j # i => calls[j].pc = "idle")
                 => voice = calls[i].atCall[1]

----------------------------------------------------------------------------
(* PreferencesService (src/unnamed/part_002)                               *)
(*                                                                         *)
(* Up to NumCalls calls of getPreferences and updatePreferences, each      *)
(* advancing from await to await, interleaved with clearCache and with     *)
(* changes of the signed-in user.  backend.rows is the user_preferences    *)
(* table, one row a user at most.  A frame keeps, next to the locals of    *)
(* the call, the user signed in when it was made (userAtCall), whether     *)
(* clearCache ran while it was in flight (beforeClear) and whether it      *)
(* assigned the cache (wrote).                                             *)

Users == {"u1", "u2"}

Tones == {"friendly", "neutral"}

\* DEFAULT_PREFERENCES, of which the tone stands for all fields.
DefaultTone == "friendly"

PrefsIdle ==
  [op |-> "", pc |-> "idle", updates |-> "", user |-> Null, userAtCall |-> Null,
   ret |-> Null, beforeClear |-> FALSE, wrote |-> FALSE]

\* The row of a user, Null when the table has none.
RowOf(rows, u) ==
  IF \E r \in rows : r.user_id = u
  THEN Some(CHOOSE r \in rows : r.user_id = u)
  ELSE Null

PrefsInit ==
  /\ prefs = [cachedPreferences |-> Null, cacheUserId |-> Null]
  /\ backend \in [user : {Null, Some("u1")},
                  rows : {{}, {[user_id |-> "u1", notification_tone |-> "neutral"]}}]
  /\ calls = [i \in 1..NumCalls |-> PrefsIdle]
  /\ now = ScheduleStart
  /\ pc = "preferences"
  /\ phrase = <<>>
  /\ result = NoResult
  /\ branch = ""
  /\ clock = NoTime
  /\ text = <<>>
  /\ pattern = 0
  /\ extraction = NoExtraction
  /\ date = InvalidDate
  /\ display = ""
  /\ note = Null
  /\ voice = [recording |-> Null, isRecording |-> FALSE]
  /\ os = [platform |-> "ios", permission |-> "undetermined",
           scheduled |-> {}, issued |-> 0]

prefsFixed == <<resolverVars, now, date, note, voice, os>>

\* Somebody else signs in, or the user signs out.
ChangeUser ==
  /\ \E u \in ({Null} \cup {Some(x) : x \in Users}) \ {backend.user} :
       backend' = [backend EXCEPT !.user = u]
  /\ UNCHANGED <<prefs, calls, prefsFixed>>

\* clearCache(); every call in flight has now seen a clearCache.
ClearCache ==
  /\ prefs' = [cachedPreferences |-> Null, cacheUserId |-> Null]
  /\ calls' = [i \in 1..NumCalls |->
                 IF calls[i].pc \in {"idle", "returned"} THEN calls[i]
                 ELSE [calls[i] EXCEPT !.beforeClear = TRUE]]
  /\ UNCHANGED <<backend, prefsFixed>>

\* getPreferences() or updatePreferences(updates) is called: up to await
\* supabase.auth.getUser().
CallPreferences(i) ==
  /\ calls[i].pc = "idle"
  /\ \E op \in {"getPreferences", "updatePreferences"} :
       \E t \in (IF op = "updatePreferences" THEN Tones ELSE {""}) :
         calls' = [calls EXCEPT ![i] =
                     [PrefsIdle EXCEPT !.op = op, !.pc = "getUser", !.updates = t,
                                       !.userAtCall = backend.user]]
  /\ UNCHANGED <<prefs, backend, prefsFixed>>

\* return null, from a guard or from the catch block
PrefsReturnNull(c) == [c EXCEPT !.pc = "returned", !.ret = Null]

\* this.cachedPreferences = data; this.cacheUserId = user.id; return data
Cached(row, u) == [cachedPreferences |-> Some(row), cacheUserId |-> Some(u)]

\* await supabase.auth.getUser() settles with the user signed in by then,
\* or is rejected.  getPreferences returns the cached row when it is that
\* user's; else the select, or the update, is sent.
AuthGetUser(i) ==
  /\ calls[i].pc = "getUser"
  /\ \E ok \in BOOLEAN :
       calls' = [calls EXCEPT ![i] =
          IF ~ok \/ backend.user = Null THEN PrefsReturnNull(@)
          ELSE IF @.op = "updatePreferences"
               THEN [@ EXCEPT !.user = backend.user, !.pc = "update"]
          ELSE IF prefs.cachedPreferences # Null /\ prefs.cacheUserId = backend.user
               THEN [@ EXCEPT !.user = backend.user, !.pc = "returned",
                              !.ret = prefs.cachedPreferences]
          ELSE [@ EXCEPT !.user = backend.user, !.pc = "select"]]
  /\ UNCHANGED <<prefs, backend, prefsFixed>>

\* The select settles: an error, the row (cached and returned), or no row
\* (PGRST116) and createDefaultPreferences sends its insert.
SelectPreferences(i) ==
  /\ calls[i].pc = "select"
  /\ LET u == calls[i].user[1]
         data == RowOf(backend.rows, u)
     IN \/ /\ calls' = [calls EXCEPT ![i] = PrefsReturnNull(@)]
           /\ prefs' = prefs
        \/ /\ data # Null
           /\ prefs' = Cached(data[1], u)
           /\ calls' = [calls EXCEPT ![i].pc = "returned", ![i].ret = data,
                                     ![i].wrote = TRUE]
        \/ /\ data = Null
           /\ prefs' = prefs
           /\ calls' = [calls EXCEPT ![i].pc = "insert"]
  /\ UNCHANGED <<backend, prefsFixed>>

\* The insert of createDefaultPreferences settles: an error (always so when
\* the user has a row by now), or the new row, cached and returned.
InsertDefaultPreferences(i) ==
  /\ calls[i].pc = "insert"
  /\ LET u == calls[i].user[1]
         row == [user_id |-> u, notification_tone |-> DefaultTone]
     IN \/ /\ calls' = [calls EXCEPT ![i] = PrefsReturnNull(@)]
           /\ UNCHANGED <<prefs, backend>>
        \/ /\ RowOf(backend.rows, u) = Null
           /\ backend' = [backend EXCEPT !.rows = @ \cup {row}]
           /\ prefs' = Cached(row, u)
           /\ calls' = [calls EXCEPT ![i].pc = "returned", ![i].ret = Some(row),
                                     ![i].wrote = TRUE]
  /\ UNCHANGED prefsFixed

\* The update of updatePreferences settles: an error (always so when the
\* user has no row), or the updated row, cached and returned.
UpdateRow(i) ==
  /\ calls[i].pc = "update"
  /\ LET u == calls[i].user[1]
         row == [user_id |-> u, notification_tone |-> calls[i].updates]
     IN \/ /\ calls' = [calls EXCEPT ![i] = PrefsReturnNull(@)]
           /\ UNCHANGED <<prefs, backend>>
        \/ /\ RowOf(backend.rows, u) # Null
           /\ backend' = [backend EXCEPT !.rows = {r \in @ : r.user_id # u} \cup {row}]
           /\ prefs' = Cached(row, u)
           /\ calls' = [calls EXCEPT ![i].pc = "returned", ![i].ret = Some(row),
                                     ![i].wrote = TRUE]
  /\ UNCHANGED prefsFixed

PrefsNext ==
  \/ ChangeUser
  \/ ClearCache
  \/ \E i \in 1..NumCalls :
       \/ CallPreferences(i)
       \/ AuthGetUser(i)
       \/ SelectPreferences(i)
       \/ InsertDefaultPreferences(i)
       \/ UpdateRow(i)

PrefsSpec == PrefsInit /\ [][PrefsNext]_vars

\* C30 (as stated; refuted): a cached row belongs to the user in
\* cacheUserId; getPreferences returns no row of a user other than the one
\* signed in when the call was made; and no call that was in flight when
\* clearCache ran fills the cache afterwards.
C30_CacheKeyed ==
  /\ prefs.cachedPreferences # Null =>
       prefs.cacheUserId = Some(prefs.cachedPreferences[1].user_id)
  /\ \A i \in 1..NumCalls :
       (calls[i].op = "getPreferences" /\ calls[i].pc = "returned" /\ calls[i].ret # Null)
         => Some(calls[i].ret[1].user_id) = calls[i].userAtCall
  /\ \A i \in 1..NumCalls : ~(calls[i].beforeClear /\ calls[i].wrote)

====
